---------------------------- MODULE Spec2Model ----------------------------
(***************************************************************************)
(* A model of the legal-question answering backend:                        *)
(*   - CitationExtractor   (backend/app/services/citation_extractor.py)    *)
(*   - VectorStore         (backend/app/services/vector_store.py)          *)
(*   - DisputeService      (backend/app/services/dispute_service.py)       *)
(*   - Orchestrator        (backend/app/services/orchestrator.py)          *)
(* Each component has its own specification (SpecCite, SpecStore,          *)
(* SpecQuery, SpecRoute) over the shared variables; the variables of the   *)
(* components a specification does not exercise stay at their parked       *)
(* values.  SpecSearch runs search coroutines side by side on one store.   *)
(***************************************************************************)
EXTENDS Integers, Sequences, FiniteSets, TLC

VARIABLES
    \* ---- CitationExtractor ----
    cite_pc,          \* "unconstructed", "ready" (loaded, nothing extracted since), "extracted"
    registry_file,    \* the article index file as the last load found it:
                      \*   [status: "unread" | "missing" | "corrupt" | "ok", articles]
    valid_articles,   \* CitationExtractor.valid_articles
    load_site,        \* which call ran the last load: "none", "init" or "reload"
    cite_raised,      \* whether the last CitationExtractor call raised
    text,             \* the text given to extract_citations
    citations         \* the list extract_citations returned since the last load

citeVars == <<cite_pc, registry_file, valid_articles, load_site, cite_raised, text, citations>>

VARIABLES
    \* ---- VectorStore (one index directory, the store object the program holds) ----
    vs_pc,            \* "none": no VectorStore object (not constructed, or __init__ raised); "ready"
    faiss_index,      \* the rows of the IndexFlatL2, in insertion order
    documents,        \* VectorStore.documents
    bm25,             \* VectorStore.bm25: [built, corpus] (None is built = FALSE)
    tokenized_corpus, \* VectorStore.tokenized_corpus
    disk,             \* the artifacts faiss.index, documents.pkl, bm25_index.pkl
    last_op,          \* the last operation on the directory, and
    prev_op,          \*   the one before it
    raised,           \* the exception the last operation raised ("none": it returned)
    returned,         \* what the last add_documents returned (-1 otherwise)
    prev_store,       \* the in-memory state of the store object that a new VectorStore replaced
    only_adds,        \* every operation so far was a construction or an add_documents that returned
    feed,             \* the documents the caller has to add, in order, and
    cursor,           \*   how many of them its add_documents calls have reported as added
    removals          \* how many artifacts the environment has removed

storeVars == <<vs_pc, faiss_index, documents, bm25, tokenized_corpus, disk, last_op, prev_op,
               raised, returned, prev_store, only_adds, feed, cursor, removals>>

VARIABLES
    \* ---- DisputeService (one call of query) ----
    q_pc,             \* where the call is: "idle", "search", "filter", "convert", "primary",
                      \*   "secondary", "done" (it returned), "raised" (an exception left it)
    q_store,          \* self.vector_store: [absent, self]
    q_claude,         \* self.claude_client is configured
    q_initialized,    \* self._initialized
    q_filters,        \* the filters argument: [given, court, date_from, date_to, cited_articles]
    q_question,       \* the question argument
    q_top_k,          \* the top_k argument
    search_results,   \* what hybrid_search returned
    filtered_results, \* what _apply_filters returned
    dispute_cases,    \* what _convert_to_dispute_cases returned
    llm_calls,        \* the generate_response calls made so far, in order: [client, ok, text]
    response,         \* the DisputeResponse returned
    q_raised          \* the exception that left query ("none": none)

queryVars == <<q_pc, q_store, q_claude, q_initialized, q_filters, q_question, q_top_k,
               search_results, filtered_results, dispute_cases, llm_calls, response, q_raised>>

VARIABLES
    \* ---- Orchestrator (one call of auto_classify) ----
    oc_pc,            \* "idle", "classified" (auto_classify returned)
    oc_message,       \* the message argument
    oc_mode           \* the QueryMode returned ("auto" before the call)

routeVars == <<oc_pc, oc_message, oc_mode>>

VARIABLES
    \* ---- concurrent searches on one VectorStore ----
    s_calls           \* the frame of each search coroutine: [op, query, top_k, pc,
                      \*   vector_results, out, overlapped]

searchVars == <<s_calls>>

VARIABLES
    \* ---- scripts/ingest_disputes.py (one call of extract_case_metadata) ----
    ig_pc,            \* "idle", "extracted"
    ig_text,          \* the text argument, a sequence of pieces
    ig_metadata       \* the dictionary returned (the keys modelled)

ingestVars == <<ig_pc, ig_text, ig_metadata>>

VARIABLES
    \* ---- Orchestrator (one call of route_query) ----
    rq_pc,            \* "idle", "returned", "raised"
    rq_services,      \* which services the orchestrator was constructed with
    rq_message,       \* the message argument
    rq_mode,          \* the mode argument
    rq_calls,         \* the services queried, in order
    rq_mode_used,     \* mode_used of the response returned
    rq_raised         \* the exception raised

dispatchVars == <<rq_pc, rq_services, rq_message, rq_mode, rq_calls, rq_mode_used, rq_raised>>

VARIABLES
    \* ---- LLM clients (one call of _retry_with_backoff) ----
    rt_pc,            \* "idle", "calling", "sleeping", "returned", "raised"
    rt_client,        \* "gemini" or "claude"
    rt_attempt,       \* the loop variable attempt
    rt_delay,         \* the local delay, in seconds
    rt_outcomes,      \* what each invocation of func did, in order
    rt_sleeps,        \* the arguments of asyncio.sleep, in order
    rt_result,        \* the value returned
    rt_raised         \* the exception raised

retryVars == <<rt_pc, rt_client, rt_attempt, rt_delay, rt_outcomes, rt_sleeps, rt_result, rt_raised>>

VARIABLES
    \* ---- storage/conversation_store.py (one ConversationStore, its callers) ----
    cs_conversations, \* self._conversations: the (key, object) pairs in insertion order
    cs_objects,       \* the conversation dictionaries created so far; an object is its index
    cs_clock,         \* datetime.utcnow(), in hours
    cs_uuid,          \* the number of ids uuid4 has generated
    cs_threads        \* per thread: the call in progress, its locals and its result

convVars == <<cs_conversations, cs_objects, cs_clock, cs_uuid, cs_threads>>

VARIABLES
    \* ---- AuthService.check_and_increment_usage and the chat endpoint ----
    us_row,           \* the committed row of the one user in table users
    us_records,       \* the number of committed UsageRecord rows
    us_lock,          \* the call whose transaction holds the row lock (0: none)
    us_clock,         \* datetime.utcnow(), in days
    us_ticks,         \* how often the clock has advanced
    us_calls,         \* per call or request: its position, locals and history
    us_granted,       \* history: calls allowed since the last daily / monthly reset
    us_last,          \* history: the row and records before and after the last commit
    us_orchestrator,  \* whether set_orchestrator has been called
    us_store          \* the conversation store: [id, messages] per conversation

usageVars == <<us_row, us_records, us_lock, us_clock, us_ticks, us_calls, us_granted, us_last, us_orchestrator, us_store>>

VARIABLES
    \* ---- VectorStore.add_documents, statement by statement, two writers ----
    wr_rows,          \* the rows of self.faiss_index
    wr_documents,     \* self.documents
    wr_tokenized,     \* self.tokenized_corpus
    wr_bm25,          \* self.bm25: the corpus it was built from
    wr_disk,          \* the rows and documents last saved
    wr_threads,       \* per writer: its position in add_documents and its batch
    wr_overlapped     \* history: a call began while another call was in progress

writersVars == <<wr_rows, wr_documents, wr_tokenized, wr_bm25, wr_disk, wr_threads, wr_overlapped>>

vars == <<citeVars, storeVars, queryVars, routeVars, searchVars, ingestVars, dispatchVars, retryVars, convVars, usageVars, writersVars>>

\* the variables of the other components, which a component's operations leave alone
notCiteVars == <<storeVars, queryVars, routeVars, searchVars, ingestVars, dispatchVars, retryVars, convVars, usageVars, writersVars>>
notStoreVars == <<citeVars, queryVars, routeVars, searchVars, ingestVars, dispatchVars, retryVars, convVars, usageVars, writersVars>>
notQueryVars == <<citeVars, storeVars, routeVars, searchVars, ingestVars, dispatchVars, retryVars, convVars, usageVars, writersVars>>
notRouteVars == <<citeVars, storeVars, queryVars, searchVars, ingestVars, dispatchVars, retryVars, convVars, usageVars, writersVars>>
notSearchVars == <<citeVars, queryVars, routeVars, ingestVars, dispatchVars, retryVars, convVars, usageVars, writersVars>>
notDispatchVars == <<citeVars, storeVars, queryVars, routeVars, searchVars, ingestVars, retryVars, convVars, usageVars, writersVars>>
notIngestVars == <<citeVars, storeVars, queryVars, routeVars, searchVars, dispatchVars, retryVars, convVars, usageVars, writersVars>>
notConvVars == <<citeVars, storeVars, queryVars, routeVars, searchVars, ingestVars, dispatchVars, retryVars, usageVars, writersVars>>
notRetryVars == <<citeVars, storeVars, queryVars, routeVars, searchVars, ingestVars, dispatchVars, convVars, usageVars, writersVars>>
notWritersVars == <<citeVars, storeVars, queryVars, routeVars, searchVars, ingestVars, dispatchVars, retryVars, convVars, usageVars>>
notUsageVars == <<citeVars, storeVars, queryVars, routeVars, searchVars, ingestVars, dispatchVars, retryVars, convVars, writersVars>>

NoneVal == "None"

\* self.bm25 = None
NoBm25 == [built |-> FALSE, corpus |-> <<>>]
\* no artifact in the index directory
EmptyDisk ==
    [faiss     |-> [exists |-> FALSE, rows |-> <<>>],
     documents |-> [exists |-> FALSE, docs |-> <<>>],
     bm25      |-> [exists |-> FALSE, bm25 |-> NoBm25, tokenized_corpus |-> <<>>]]
\* self.faiss_index = None
NoneIndex == [is_none |-> TRUE, rows |-> <<>>]
\* the attributes of a VectorStore before load() or _initialize_empty_index()
NoStore == [faiss_index |-> NoneIndex, documents |-> <<>>, bm25 |-> NoBm25,
            tokenized_corpus |-> <<>>]

\* the parked values of a component that a specification does not exercise
CiteParked ==
    /\ cite_pc = "unconstructed"
    /\ registry_file = [status |-> "unread", articles |-> {}]
    /\ valid_articles = {}
    /\ load_site = "none"
    /\ cite_raised = FALSE
    /\ text = <<>>
    /\ citations = <<>>

StoreParked ==
    /\ vs_pc = "none"
    /\ faiss_index = NoneIndex
    /\ documents = <<>>
    /\ bm25 = NoBm25
    /\ tokenized_corpus = <<>>
    /\ disk = EmptyDisk
    /\ last_op = "none"
    /\ prev_op = "none"
    /\ raised = "none"
    /\ returned = -1
    /\ prev_store = [held |-> FALSE, self |-> NoStore]
    /\ only_adds = TRUE
    /\ feed = <<>>
    /\ cursor = 0
    /\ removals = 0

RouteParked ==
    /\ oc_pc = "idle"
    /\ oc_message = <<>>
    /\ oc_mode = "auto"

\* no search coroutine
SearchParked == s_calls = <<>>

IngestParked ==
    /\ ig_pc = "idle"
    /\ ig_text = <<>>
    /\ ig_metadata = [category |-> NoneVal, final_decision |-> NoneVal, decision_type |-> NoneVal]

\* filters=None
NoFilters == [given |-> FALSE, court |-> NoneVal, date_from |-> NoneVal, date_to |-> NoneVal,
              cited_articles |-> <<>>]
NoResponse == [answer |-> <<>>, cases_cited |-> <<>>, relevant_tax_articles |-> <<>>,
               confidence |-> 0, model_used |-> NoneVal]

QueryParked ==
    /\ q_pc = "idle"
    /\ q_store = [absent |-> TRUE, self |-> NoStore]
    /\ q_claude = FALSE
    /\ q_initialized = FALSE
    /\ q_filters = NoFilters
    /\ q_question = <<>>
    /\ q_top_k = 1
    /\ search_results = <<>>
    /\ filtered_results = <<>>
    /\ dispute_cases = <<>>
    /\ llm_calls = <<>>
    /\ response = NoResponse
    /\ q_raised = "none"

RetryParked ==
    /\ rt_pc = "idle"
    /\ rt_client = "gemini"
    /\ rt_attempt = 0
    /\ rt_delay = 0
    /\ rt_outcomes = <<>>
    /\ rt_sleeps = <<>>
    /\ rt_result = "none"
    /\ rt_raised = "none"

DispatchParked ==
    /\ rq_pc = "idle"
    /\ rq_services = [tax |-> TRUE, dispute |-> TRUE]
    /\ rq_message = <<>>
    /\ rq_mode = "auto"
    /\ rq_calls = <<>>
    /\ rq_mode_used = "none"
    /\ rq_raised = "none"

UsageParked ==
    /\ us_row = [exists |-> FALSE, daily_requests_count |-> 0, monthly_requests_count |-> 0,
                 total_requests_count |-> 0, daily_requests_reset_at |-> 0,
                 monthly_requests_reset_at |-> 0]
    /\ us_records = 0
    /\ us_lock = 0
    /\ us_clock = 0
    /\ us_ticks = 0
    /\ us_calls = <<>>
    /\ us_granted = [daily |-> 0, monthly |-> 0]
    /\ us_last = <<>>
    /\ us_orchestrator = FALSE
    /\ us_store = <<>>

ConvParked ==
    /\ cs_conversations = <<>>
    /\ cs_objects = <<>>
    /\ cs_clock = 0
    /\ cs_uuid = 0
    /\ cs_threads = <<>>

WritersParked ==
    /\ wr_rows = <<>>
    /\ wr_documents = <<>>
    /\ wr_tokenized = <<>>
    /\ wr_bm25 = <<>>
    /\ wr_disk = <<>>
    /\ wr_threads = <<>>
    /\ wr_overlapped = FALSE

(***************************************************************************)
(* Sequence helpers                                                        *)
(***************************************************************************)
Range(s) == {s[i] : i \in DOMAIN s}

Min(a, b) == IF a <= b THEN a ELSE b

\* the largest number of a non-empty sequence of numbers
MaxOf(s) == CHOOSE m \in Range(s) : \A i \in DOMAIN s : s[i] <= m

\* list.sort(key=lambda x: x.score, reverse=True): stable, descending
RECURSIVE InsertDesc(_, _)
InsertDesc(sorted, x) ==
    IF sorted = <<>> THEN <<x>>
    ELSE IF Head(sorted).score >= x.score THEN <<Head(sorted)>> \o InsertDesc(Tail(sorted), x)
    ELSE <<x>> \o sorted

RECURSIVE SortDesc(_)
SortDesc(s) ==
    IF s = <<>> THEN <<>>
    ELSE InsertDesc(SortDesc(SubSeq(s, 1, Len(s) - 1)), s[Len(s)])

\* s[:n]
Take(s, n) == SubSeq(s, 1, Min(n, Len(s)))

RECURSIVE Flatten(_)
Flatten(ss) == IF ss = <<>> THEN <<>> ELSE Head(ss) \o Flatten(Tail(ss))

(***************************************************************************)
(*                          CitationExtractor                              *)
(*                                                                         *)
(* A text is a sequence of tokens.  Each token stands for the exact        *)
(* string the patterns are written over:                                   *)
(*   "M" = 'მუხლი'  "Mes" = 'მუხლები'  "Ms" = 'მუხლის'                      *)
(*   "N" = 'ნაწილი'  "P" = 'პუნქტი'   "da" = 'და'   "it" = 'ით'              *)
(*   "a" = 'ა'  "e" = 'ე'  (single Georgian letters)                        *)
(*   " " whitespace, "." "," "-" punctuation, "en" the en dash '–'         *)
(*   a token of NumTokens = a maximal run of digits                        *)
(* A digit run is one token: every \d+ of PATTERNS is either followed by   *)
(* a literal that is no digit or guarded by the lookahead (?![.\d-]), so   *)
(* no pattern can match a proper prefix of a digit run.                    *)
(***************************************************************************)
NumTokens == {"166", "168", "1", "2"}
IsNum(tok) == tok \in NumTokens

\* The first character of a token when it is a Georgian letter (the class [ა-ჰ]).
FirstLetter(tok) ==
    CASE tok \in {"a", "e"}          -> tok
      [] tok \in {"M", "Mes", "Ms"}  -> "m"
      [] tok = "N"                   -> "n"
      [] tok = "P"                   -> "p"
      [] tok = "da"                  -> "d"
      [] tok = "it"                  -> "i"
      [] OTHER                       -> NoneVal
IsLetterStart(tok) == FirstLetter(tok) # NoneVal

At(t, i) == IF i \in 1..Len(t) THEN t[i] ELSE "EOT"

\* \s* : the index after the whitespace run that starts at i
RECURSIVE SkipWs(_, _)
SkipWs(t, i) == IF At(t, i) = " " THEN SkipWs(t, i + 1) ELSE i

\* ,? : the index after an optional comma at i
SkipComma(t, i) == IF At(t, i) = "," THEN i + 1 ELSE i

NoMatch == [ok |-> FALSE]
Match(article, clause, letter, raw, start, end, is_range) ==
    [ok |-> TRUE, article |-> article, clause |-> clause, letter |-> letter,
     raw |-> raw, start |-> start, end |-> end, is_range |-> is_range]

\* Pattern 1: r'მუხლი\s*(\d+)\.(\d+)\.([ა-ჰ])'
Pattern1(t, i) ==
    LET j == SkipWs(t, i + 1) IN
    IF /\ At(t, i) = "M" /\ IsNum(At(t, j)) /\ At(t, j + 1) = "."
       /\ IsNum(At(t, j + 2)) /\ At(t, j + 3) = "." /\ IsLetterStart(At(t, j + 4))
    THEN Match(<<t[j]>>, t[j + 2], FirstLetter(t[j + 4]),
               SubSeq(t, i, j + 3) \o <<FirstLetter(t[j + 4])>>, i, j + 5, FALSE)
    ELSE NoMatch

\* Pattern 2: r'მუხლი\s*(\d+)\.(\d+)'
Pattern2(t, i) ==
    LET j == SkipWs(t, i + 1) IN
    IF /\ At(t, i) = "M" /\ IsNum(At(t, j)) /\ At(t, j + 1) = "."
       /\ IsNum(At(t, j + 2))
    THEN Match(<<t[j]>>, t[j + 2], NoneVal, SubSeq(t, i, j + 2), i, j + 3, FALSE)
    ELSE NoMatch

\* Pattern 3: r'მუხლი\s*(\d+),?\s*ნაწილი\s*(\d+)(?:,?\s*პუნქტი\s*([ა-ჰ]))?'
Pattern3(t, i) ==
    LET j  == SkipWs(t, i + 1)                  \* the article
        n  == SkipWs(t, SkipComma(t, j + 1))    \* 'ნაწილი'
        c  == SkipWs(t, n + 1)                  \* the clause
        p  == SkipWs(t, SkipComma(t, c + 1))    \* 'პუნქტი' of the optional tail
        l  == SkipWs(t, p + 1)                  \* its letter
    IN
    IF /\ At(t, i) = "M" /\ IsNum(At(t, j)) /\ At(t, n) = "N" /\ IsNum(At(t, c))
    THEN IF At(t, p) = "P" /\ IsLetterStart(At(t, l))
         THEN Match(<<t[j]>>, t[c], FirstLetter(t[l]),
                    SubSeq(t, i, l - 1) \o <<FirstLetter(t[l])>>, i, l + 1, FALSE)
         ELSE Match(<<t[j]>>, t[c], NoneVal, SubSeq(t, i, c), i, c + 1, FALSE)
    ELSE NoMatch

\* Pattern 4: r'(\d+)-ე\s*მუხლ[ი|ის]'  (the class is one character: 'ი', '|' or 'ს',
\* so of 'მუხლის' only 'მუხლი' is matched)
Pattern4(t, i) ==
    LET m == SkipWs(t, i + 3) IN
    IF /\ IsNum(At(t, i)) /\ At(t, i + 1) = "-" /\ At(t, i + 2) = "e"
       /\ At(t, m) \in {"M", "Ms"}
    THEN Match(<<t[i]>>, NoneVal, NoneVal, SubSeq(t, i, m - 1) \o <<"M">>, i, m + 1, FALSE)
    ELSE NoMatch

\* Pattern 5: r'მუხლი\s*(\d+)(?![.\d-])'
Pattern5(t, i) ==
    LET j == SkipWs(t, i + 1) IN
    IF /\ At(t, i) = "M" /\ IsNum(At(t, j))
       /\ At(t, j + 1) \notin {".", "-"} /\ ~IsNum(At(t, j + 1))
    THEN Match(<<t[j]>>, NoneVal, NoneVal, SubSeq(t, i, j), i, j + 1, FALSE)
    ELSE NoMatch

\* Pattern 6: r'მუხლ(?:ებ)?ი\s*(\d+)[-–](\d+)' ; article = f"{m.group(1)}-{m.group(2)}"
Pattern6(t, i) ==
    LET j == SkipWs(t, i + 1) IN
    IF /\ At(t, i) \in {"M", "Mes"} /\ IsNum(At(t, j))
       /\ At(t, j + 1) \in {"-", "en"} /\ IsNum(At(t, j + 2))
    THEN Match(<<t[j], "-", t[j + 2]>>, NoneVal, NoneVal, SubSeq(t, i, j + 2), i, j + 3, TRUE)
    ELSE NoMatch

\* (mutant of PATTERNS) the bare form tried before the more specific forms
PatternsBareFirst == <<5, 1, 2, 3, 4, 6>>

\* The ordered pattern list
PATTERNS == <<1, 2, 3, 4, 5, 6>>

MatchAt(p, t, i) ==
    CASE p = 1 -> Pattern1(t, i)
      [] p = 2 -> Pattern2(t, i)
      [] p = 3 -> Pattern3(t, i)
      [] p = 4 -> Pattern4(t, i)
      [] p = 5 -> Pattern5(t, i)
      [] p = 6 -> Pattern6(t, i)

\* re.finditer(pattern, text): the non-overlapping matches, left to right
RECURSIVE FindIter(_, _, _)
FindIter(p, t, i) ==
    IF i > Len(t) THEN <<>>
    ELSE LET m == MatchAt(p, t, i) IN
         IF m.ok THEN <<m>> \o FindIter(p, t, m.end)
         ELSE FindIter(p, t, i + 1)

\* for pattern, extractor in self.PATTERNS: for match in re.finditer(pattern, text)
RECURSIVE MatchesInOrder(_, _)
MatchesInOrder(ps, t) ==
    IF ps = <<>> THEN <<>>
    ELSE FindIter(Head(ps), t, 1) \o MatchesInOrder(Tail(ps), t)

\* article_range.split("-") : the token runs between the hyphens
RECURSIVE SplitDash(_)
SplitDash(a) ==
    IF \A i \in DOMAIN a : a[i] # "-" THEN <<a>>
    ELSE LET k == CHOOSE i \in DOMAIN a : a[i] = "-" /\ \A j \in 1..(i - 1) : a[j] # "-"
         IN <<SubSeq(a, 1, k - 1)>> \o SplitDash(SubSeq(a, k + 1, Len(a)))

\* part in self.valid_articles : a part is a registry string iff it is one digit run
PartValid(part, valid) == Len(part) = 1 /\ part[1] \in valid

\* (mutant of _validate_article_number) every article passes
ValidateAlwaysTrue(article, valid) == TRUE

_validate_article_number(article, valid) == PartValid(article, valid)

RangeValid(article, valid) ==
    LET parts == SplitDash(article) IN
    IF Len(parts) = 2 THEN PartValid(parts[1], valid) /\ PartValid(parts[2], valid)
    ELSE FALSE

\* validate_citation(citation)
validate_citation(c, valid) ==
    IF "-" \in Range(c.article) THEN RangeValid(c.article, valid)
    ELSE _validate_article_number(c.article, valid)

\* format_citation_link(article, clause, letter); the link is the token sequence
\* MATSNE_BASE_URL '#ARTICLE_' article ['_' clause] ['_' letter]
format_citation_link(article, clause, letter) ==
    <<"MATSNE_BASE_URL">>
      \o (IF article # <<>>
          THEN <<"#ARTICLE_">> \o article
                 \o (IF clause # NoneVal THEN <<"_", clause>> ELSE <<>>)
                 \o (IF letter # NoneVal THEN <<"_", letter>> ELSE <<>>)
          ELSE <<>>)

CitationKey(m) == <<m.article, m.clause, m.letter>>

\* the body of the loop of extract_citations for one match
CitationOf(m, valid) ==
    LET is_valid == IF m.is_range THEN RangeValid(m.article, valid)
                    ELSE _validate_article_number(m.article, valid)
    IN [raw_text |-> m.raw, article |-> m.article, clause |-> m.clause,
        letter |-> m.letter, is_valid |-> is_valid,
        matsne_url |-> IF is_valid
                       THEN format_citation_link(m.article, m.clause, m.letter)
                       ELSE <<NoneVal>>]

RECURSIVE Dedup(_, _, _)
Dedup(ms, seen_citations, valid) ==
    IF ms = <<>> THEN <<>>
    ELSE LET m == Head(ms) IN
         IF CitationKey(m) \notin seen_citations
         THEN <<CitationOf(m, valid)>>
                \o Dedup(Tail(ms), seen_citations \cup {CitationKey(m)}, valid)
         ELSE Dedup(Tail(ms), seen_citations, valid)

extract_citations(t, valid) == Dedup(MatchesInOrder(PATTERNS, t), {}, valid)

\* _load_article_index(): the valid-article set it leaves, given the file and the
\* set before the call.  A missing file returns early; a file that json.load or
\* .get() rejects takes the except branch; nothing is raised to the caller.
_load_article_index(file, before) ==
    IF file.status = "missing" THEN before
    ELSE IF file.status = "corrupt" THEN {}
    ELSE file.articles

(***************************************************************************)
(* The texts extract_citations is applied to: up to MaxPhrases references, *)
(* joined by ' და ', with or without a full stop at the end.  Each phrase   *)
(* carries the reference (article, clause, letter) it denotes.             *)
(***************************************************************************)
MaxPhrases == 2

PhraseTable == <<
    [toks |-> <<"M", " ", "166", ".", "1", ".", "a">>,
     ref  |-> <<"166", "1", "a">>,        form |-> "dotted"],
    [toks |-> <<"M", " ", "166", ".", "1">>,
     ref  |-> <<"166", "1", NoneVal>>,    form |-> "dotted"],
    [toks |-> <<"M", " ", "166", ",", " ", "N", " ", "1">>,
     ref  |-> <<"166", "1", NoneVal>>,    form |-> "verbose"],
    [toks |-> <<"M", " ", "166", ",", " ", "N", " ", "1", ",", " ", "P", " ", "a">>,
     ref  |-> <<"166", "1", "a">>,        form |-> "verbose"],
    [toks |-> <<"166", "-", "e", " ", "M">>,
     ref  |-> <<"166", NoneVal, NoneVal>>, form |-> "ordinal"],
    [toks |-> <<"168", "-", "e", " ", "Ms">>,
     ref  |-> <<"168", NoneVal, NoneVal>>, form |-> "ordinal"],
    [toks |-> <<"M", " ", "166">>,
     ref  |-> <<"166", NoneVal, NoneVal>>, form |-> "bare"],
    [toks |-> <<"M", " ", "168">>,
     ref  |-> <<"168", NoneVal, NoneVal>>, form |-> "bare"],
    [toks |-> <<"M", " ", "168", "-", "it">>,
     ref  |-> <<"168", NoneVal, NoneVal>>, form |-> "suffixed"],
    [toks |-> <<"Mes", " ", "166", "-", "168">>,
     ref  |-> <<"166-168", NoneVal, NoneVal>>, form |-> "range"],
    [toks |-> <<"M", " ", "166", "en", "168">>,
     ref  |-> <<"166-168", NoneVal, NoneVal>>, form |-> "range"] >>

PhraseIds == DOMAIN PhraseTable
Sep == <<" ", "da", " ">>

RECURSIVE JoinPhrases(_)
JoinPhrases(ids) ==
    IF ids = <<>> THEN <<>>
    ELSE IF Len(ids) = 1 THEN PhraseTable[ids[1]].toks
    ELSE PhraseTable[ids[1]].toks \o Sep \o JoinPhrases(Tail(ids))

PhraseSeqs == UNION {[1..n -> PhraseIds] : n \in 0..MaxPhrases}
Endings == {<<>>, <<".">>}
TextOf(ids, ending) == JoinPhrases(ids) \o ending
Texts == {TextOf(ids, ending) : ids \in PhraseSeqs, ending \in Endings}

\* the contents the registry file can have
Registries == {{"166"}, {"166", "168"}}
RegistryFiles ==
    {[status |-> "missing", articles |-> {}], [status |-> "corrupt", articles |-> {}]}
      \cup {[status |-> "ok", articles |-> r] : r \in Registries}

(***************************************************************************)
(* CitationExtractor: operations.  The registry file belongs to the        *)
(* environment: each load finds it in any of the states of RegistryFiles.  *)
(***************************************************************************)
CiteInit ==
    /\ cite_pc = "unconstructed"
    /\ registry_file = [status |-> "unread", articles |-> {}]
    /\ valid_articles = {}
    /\ load_site = "none"
    /\ cite_raised = FALSE
    /\ text \in Texts
    /\ citations = <<>>

\* CitationExtractor.__init__: valid_articles = set(); _load_article_index()
Construct ==
    /\ cite_pc = "unconstructed"
    /\ \E f \in RegistryFiles :
          /\ registry_file' = f
          /\ valid_articles' = _load_article_index(f, {})
    /\ cite_pc' = "ready"
    /\ load_site' = "init"
    /\ cite_raised' = FALSE
    /\ citations' = <<>>
    /\ UNCHANGED <<text, notCiteVars>>

\* reload_index(): _load_article_index() inside try; returns True
ReloadIndex ==
    /\ cite_pc # "unconstructed"
    /\ \E f \in RegistryFiles :
          /\ registry_file' = f
          /\ valid_articles' = _load_article_index(f, valid_articles)
    /\ cite_pc' = "ready"
    /\ load_site' = "reload"
    /\ cite_raised' = FALSE
    /\ citations' = <<>>
    /\ UNCHANGED <<text, notCiteVars>>

\* extract_citations(text)
ExtractCitations ==
    /\ cite_pc = "ready"
    /\ citations' = extract_citations(text, valid_articles)
    /\ cite_pc' = "extracted"
    /\ cite_raised' = FALSE
    /\ UNCHANGED <<registry_file, valid_articles, load_site, text, notCiteVars>>

CiteNext == Construct \/ ReloadIndex \/ ExtractCitations

\* the state after start-up, before the extractor is constructed
InitCite == WritersParked /\ UsageParked /\ ConvParked /\ RetryParked /\ DispatchParked /\ IngestParked /\ StoreParked /\ QueryParked /\ RouteParked /\ SearchParked /\ CiteInit

SpecCite == InitCite /\ [][CiteNext]_vars

(***************************************************************************)
(* CitationExtractor: properties                                           *)
(***************************************************************************)
KeyOfCitation(c) == <<c.article, c.clause, c.letter>>

\* every match of every pattern in the text, with the pattern's place in the list
Candidates(t) ==
    UNION {{[p |-> p, m |-> FindIter(p, t, 1)[k]] : k \in DOMAIN FindIter(p, t, 1)}
           : p \in 1..6}

Earlier(x, y) == x.p < y.p \/ (x.p = y.p /\ x.m.start < y.m.start)

\* C4: extract_citations never returns two Citations with the same
\* (article, clause, letter) key; every matched key is returned once, and the
\* Citation kept for a key carries the raw text of the match of the earliest
\* pattern of the list, and within that pattern of the leftmost match.
C4_FirstPatternWins ==
    cite_pc = "extracted" =>
      LET cands == Candidates(text) IN
      /\ \A i, j \in DOMAIN citations :
            i # j => KeyOfCitation(citations[i]) # KeyOfCitation(citations[j])
      /\ {KeyOfCitation(citations[i]) : i \in DOMAIN citations}
            = {CitationKey(x.m) : x \in cands}
      /\ \A i \in DOMAIN citations :
            \E x \in cands :
              /\ CitationKey(x.m) = KeyOfCitation(citations[i])
              /\ \A y \in cands : CitationKey(y.m) = CitationKey(x.m) => ~Earlier(y, x)
              /\ citations[i].raw_text = x.m.raw

\* C4 witness: a key matched by two patterns, the earlier pattern's match lying
\* further right in the text, and the Citation kept is the earlier pattern's.
C4_Witness ==
    /\ cite_pc = "extracted"
    /\ \E i \in DOMAIN citations : \E x, y \in Candidates(text) :
          /\ CitationKey(x.m) = KeyOfCitation(citations[i])
          /\ CitationKey(y.m) = CitationKey(x.m)
          /\ x.p < y.p /\ y.m.start < x.m.start
          /\ citations[i].raw_text = x.m.raw
          /\ x.m.raw # y.m.raw

\* C5 (as claimed): a text that states one reference - once, or twice in two
\* different forms (dotted, verbose, ordinal, bare) denoting the same
\* (article, clause, letter) - yields exactly one Citation.
C5_OneReferenceOneCitation ==
    cite_pc = "extracted" =>
      \A ids \in PhraseSeqs :
        ( /\ Len(ids) \in {1, 2}
          /\ TextOf(ids, <<>>) = text
          /\ \A k \in DOMAIN ids :
                /\ PhraseTable[ids[k]].form \in {"dotted", "verbose", "ordinal", "bare"}
                /\ PhraseTable[ids[k]].ref = PhraseTable[ids[1]].ref
          /\ Len(ids) = 2 => PhraseTable[ids[1]].form # PhraseTable[ids[2]].form )
        => Len(citations) = 1

\* membership in the registry: a single article, or both ends of a range 'A-B'
InRegistry(article, valid) ==
    IF Len(article) = 3 /\ article[2] = "-"
    THEN article[1] \in valid /\ article[3] \in valid
    ELSE Len(article) = 1 /\ article[1] \in valid

LinkOf(c) ==
    <<"MATSNE_BASE_URL", "#ARTICLE_">> \o c.article
      \o (IF c.clause # NoneVal THEN <<"_", c.clause>> ELSE <<>>)
      \o (IF c.letter # NoneVal THEN <<"_", c.letter>> ELSE <<>>)

\* C6: for every Citation returned, is_valid holds iff the article (both ends of a
\* range) is in the valid-article set; the link is present iff is_valid and is then
\* base#ARTICLE_{article}[_{clause}][_{letter}]; validate_citation returns is_valid.
C6_ValidIffInRegistry ==
    cite_pc = "extracted" =>
      \A i \in DOMAIN citations :
        LET c == citations[i] IN
        /\ c.is_valid <=> InRegistry(c.article, valid_articles)
        /\ (c.matsne_url # <<NoneVal>>) <=> c.is_valid
        /\ c.is_valid => c.matsne_url = LinkOf(c)
        /\ validate_citation(c, valid_articles) = c.is_valid

\* C6 witness: one list holding a valid Citation with a clause and its link, and an
\* invalid Citation with no link.
C6_Witness ==
    /\ cite_pc = "extracted"
    /\ \E i, j \in DOMAIN citations :
          /\ citations[i].is_valid /\ citations[i].clause # NoneVal
          /\ citations[i].matsne_url
                = <<"MATSNE_BASE_URL", "#ARTICLE_", "166", "_", citations[i].clause>>
          /\ ~citations[j].is_valid /\ citations[j].matsne_url = <<NoneVal>>

\* C7 (as claimed): when the load at construction or at reload_index found the
\* registry file missing or unparsable, nothing was raised, the valid-article set
\* is empty, and every Citation extracted since is invalid and has no link.
C7_LoadFailureEmptiesRegistry ==
    (cite_pc # "unconstructed" /\ registry_file.status \in {"missing", "corrupt"}) =>
      /\ ~cite_raised
      /\ valid_articles = {}
      /\ \A i \in DOMAIN citations :
            ~citations[i].is_valid /\ citations[i].matsne_url = <<NoneVal>>

(***************************************************************************)
(*                              VectorStore                                *)
(*                                                                         *)
(* A document's content is the sequence of its lexical pieces (words and   *)
(* punctuation marks); its metadata is a set of <<key, value>> pairs; its  *)
(* embedding is a vector of integers, or None before it is encoded.        *)
(* Scores are fixed-point numbers, in thousandths.                         *)
(***************************************************************************)
Doc(id, content, metadata, embedding) ==
    [id |-> id, content |-> content, metadata |-> metadata, embedding |-> embedding]

\* doc.embedding is None
NoEmbedding == <<>>

\* str.lower() on one piece
Lower(w) == IF w = "VAT" THEN "vat" ELSE IF w = "Court" THEN "court" ELSE w

\* a piece that holds no character of [Ⴀ-ჿa-z0-9]
IsPunct(w) == w \in {",", ".", "-"}

\* VectorStore._tokenize_text: lower-case, then the maximal runs of letters and digits
RECURSIVE _tokenize_text(_)
_tokenize_text(content) ==
    IF content = <<>> THEN <<>>
    ELSE (IF IsPunct(Head(content)) THEN <<>> ELSE <<Lower(Head(content))>>)
         \o _tokenize_text(Tail(content))

\* how often word w occurs in the token list toks
Freq(toks, w) == Cardinality({i \in DOMAIN toks : toks[i] = w})

\* SentenceTransformer.encode on one text: a fixed function of the text
Encode(content) == <<Freq(_tokenize_text(content), "vat"), Freq(_tokenize_text(content), "court")>>

\* the encoder can fail (model not loaded, out of memory): EncodeOutcomes are its behaviours
EncodeOutcomes == {"ok", "raise"}

\* rank_bm25.BM25Okapi(corpus): _initialize divides by the corpus size and _calc_idf by
\* the number of distinct words, so it raises ZeroDivisionError on a corpus that is
\* empty or holds no token at all
Bm25Raises(corpus) == \A i \in DOMAIN corpus : corpus[i] = <<>>
BM25Okapi(corpus) == [built |-> TRUE, corpus |-> corpus]

\* [self._tokenize_text(doc.content) for doc in self.documents]
TokenizeAll(docs) == [i \in DOMAIN docs |-> _tokenize_text(docs[i].content)]

\* The result of an operation on a store: the store's attributes and the directory
\* after it, the exception it raised ("none" if it returned) and its return value
\* (-1: None).
Outcome(self, d, exc, ret) == [self |-> self, disk |-> d, raised |-> exc, ret |-> ret]

\* VectorStore.save
save(self, d) ==
    Outcome(self,
            [d EXCEPT !.faiss = IF self.faiss_index.is_none THEN @
                                ELSE [exists |-> TRUE, rows |-> self.faiss_index.rows],
                      !.documents = [exists |-> TRUE, docs |-> self.documents],
                      !.bm25 = IF self.bm25.built
                               THEN [exists |-> TRUE, bm25 |-> self.bm25,
                                     tokenized_corpus |-> self.tokenized_corpus]
                               ELSE @],
            "none", -1)

\* VectorStore.load: each attribute is assigned as soon as its artifact is read, so an
\* exception leaves the attributes assigned before it in place
load(self, d) ==
    IF ~d.faiss.exists THEN Outcome(self, d, "FileNotFoundError", -1)
    ELSE LET s1 == [self EXCEPT !.faiss_index = [is_none |-> FALSE, rows |-> d.faiss.rows]]
         IN IF ~d.documents.exists THEN Outcome(s1, d, "FileNotFoundError", -1)
            ELSE LET s2 == [s1 EXCEPT !.documents = d.documents.docs]
                 IN IF d.bm25.exists
                    THEN Outcome([s2 EXCEPT !.bm25 = d.bm25.bm25,
                                            !.tokenized_corpus = d.bm25.tokenized_corpus],
                                 d, "none", -1)
                    ELSE LET s3 == [s2 EXCEPT !.tokenized_corpus = TokenizeAll(s2.documents)]
                         IN IF Bm25Raises(s3.tokenized_corpus)
                            THEN Outcome(s3, d, "ZeroDivisionError", -1)
                            ELSE Outcome([s3 EXCEPT !.bm25 = BM25Okapi(s3.tokenized_corpus)],
                                         d, "none", -1)

\* VectorStore._initialize_empty_index
_initialize_empty_index(self) == [self EXCEPT !.faiss_index = [is_none |-> FALSE, rows |-> <<>>]]

\* VectorStore.__init__: load(); only FileNotFoundError is caught
__init__(d) ==
    LET r == load(NoStore, d)
    IN IF r.raised = "FileNotFoundError"
       THEN Outcome(_initialize_empty_index(r.self), d, "none", -1)
       ELSE r

\* the batch after "doc.embedding = embedding.tolist()" for the documents without one
Embedded(batch) ==
    [i \in DOMAIN batch |->
        IF batch[i].embedding = NoEmbedding
        THEN [batch[i] EXCEPT !.embedding = Encode(batch[i].content)]
        ELSE batch[i]]

NeedsEncoding(batch) == \E i \in DOMAIN batch : batch[i].embedding = NoEmbedding

\* add_documents without the auto-save at its end
AddWithoutSave(self, d, batch, enc) ==
    IF batch = <<>> THEN Outcome(self, d, "none", 0)
    ELSE IF NeedsEncoding(batch) /\ enc = "raise" THEN Outcome(self, d, "EncoderError", -1)
    ELSE IF self.faiss_index.is_none THEN Outcome(self, d, "AttributeError", -1)
    ELSE LET docs == Embedded(batch)
             s1 == [self EXCEPT !.faiss_index.rows = @ \o [i \in DOMAIN docs |-> docs[i].embedding]]
             s2 == [s1 EXCEPT !.documents = @ \o docs]
             s3 == [s2 EXCEPT !.tokenized_corpus = TokenizeAll(s2.documents)]
         IN IF Bm25Raises(s3.tokenized_corpus)
            THEN Outcome(s3, d, "ZeroDivisionError", -1)
            ELSE Outcome([s3 EXCEPT !.bm25 = BM25Okapi(s3.tokenized_corpus)], d, "none",
                         Len(batch))

\* VectorStore.add_documents; enc is the behaviour of the encoder during the call
add_documents(self, d, batch, enc) ==
    IF batch = <<>> THEN Outcome(self, d, "none", 0)
    ELSE IF NeedsEncoding(batch) /\ enc = "raise" THEN Outcome(self, d, "EncoderError", -1)
    ELSE IF self.faiss_index.is_none THEN Outcome(self, d, "AttributeError", -1)
    ELSE LET docs == Embedded(batch)
             s1 == [self EXCEPT !.faiss_index.rows = @ \o [i \in DOMAIN docs |-> docs[i].embedding]]
             s2 == [s1 EXCEPT !.documents = @ \o docs]
             s3 == [s2 EXCEPT !.tokenized_corpus = TokenizeAll(s2.documents)]
         IN IF Bm25Raises(s3.tokenized_corpus)
            THEN Outcome(s3, d, "ZeroDivisionError", -1)
            ELSE LET s4 == [s3 EXCEPT !.bm25 = BM25Okapi(s3.tokenized_corpus)]
                     sv == save(s4, d)
                 IN Outcome(sv.self, sv.disk, sv.raised, Len(batch))

(***************************************************************************)
(* VectorStore: the three searches.  A search returns                      *)
(* [raised, results]; a result is [document, score, match_type].           *)
(***************************************************************************)
Found(results) == [raised |-> "none", results |-> results]
Failed(exc) == [raised |-> exc, results |-> <<>>]

SearchResult(document, score, match_type) ==
    [document |-> document, score |-> score, match_type |-> match_type]

\* doc.metadata.get(k)
Get(metadata, k) ==
    IF \E p \in metadata : p[1] = k THEN (CHOOSE p \in metadata : p[1] = k)[2] ELSE NoneVal

\* all(doc.metadata.get(k) == v for k, v in filter_metadata.items()); an empty or
\* absent filter (the empty set) filters nothing
PassesFilter(doc, filter_metadata) ==
    \A p \in filter_metadata : Get(doc.metadata, p[1]) = p[2]

\* squared L2 distance, what IndexFlatL2 reports
SqDist(a, b) == (a[1] - b[1]) * (a[1] - b[1]) + (a[2] - b[2]) * (a[2] - b[2])

\* the distance IndexFlatL2 reports for a missing neighbour (FLT_MAX), with label -1
FltMax == 1000 * 1000

\* IndexFlatL2.search(q, k): the k nearest rows, nearest first (the lower row first
\* among equals), as 0-based labels; padded when the index holds fewer than k rows
RECURSIVE Nearest(_, _, _, _)
Nearest(rows, q, S, k) ==
    IF k = 0 THEN <<>>
    ELSE IF S = {} THEN <<[idx |-> -1, dist |-> FltMax]>> \o Nearest(rows, q, S, k - 1)
    ELSE LET best == CHOOSE i \in S : \A j \in S :
                        \/ SqDist(rows[i], q) < SqDist(rows[j], q)
                        \/ (SqDist(rows[i], q) = SqDist(rows[j], q) /\ i <= j)
         IN <<[idx |-> best - 1, dist |-> SqDist(rows[best], q)]>>
            \o Nearest(rows, q, S \ {best}, k - 1)

FaissSearch(index, q, k) == Nearest(index.rows, q, DOMAIN index.rows, k)

\* search with the division by max_distance left out
SearchUnnormalised(self, query, top_k, filter_metadata, enc) ==
    IF self.documents = <<>> THEN Found(<<>>)
    ELSE IF enc = "raise" THEN Failed("EncoderError")
    ELSE IF self.faiss_index.is_none THEN Failed("AttributeError")
    ELSE LET hits == FaissSearch(self.faiss_index, Encode(query),
                                 Min(top_k * 2, Len(self.documents)))
             Keep(h) == /\ h.idx >= 0
                        /\ h.idx < Len(self.documents)
                        /\ PassesFilter(self.documents[h.idx + 1], filter_metadata)
             kept == SelectSeq(hits, Keep)
             results == [i \in DOMAIN kept |->
                            SearchResult(self.documents[kept[i].idx + 1],
                                         1000 - kept[i].dist * 1000,
                                         "vector")]
         IN Found(Take(SortDesc(results), top_k))

\* VectorStore.search; enc is the behaviour of the encoder during the call
search(self, query, top_k, filter_metadata, enc) ==
    IF self.documents = <<>> THEN Found(<<>>)
    ELSE IF enc = "raise" THEN Failed("EncoderError")
    ELSE IF self.faiss_index.is_none THEN Failed("AttributeError")
    ELSE LET hits == FaissSearch(self.faiss_index, Encode(query),
                                 Min(top_k * 2, Len(self.documents)))
             distances == [i \in DOMAIN hits |-> hits[i].dist]
             max_distance == IF MaxOf(distances) > 0 THEN MaxOf(distances) ELSE 1
             Keep(h) == /\ h.idx >= 0
                        /\ h.idx < Len(self.documents)
                        /\ PassesFilter(self.documents[h.idx + 1], filter_metadata)
             kept == SelectSeq(hits, Keep)
             results == [i \in DOMAIN kept |->
                            SearchResult(self.documents[kept[i].idx + 1],
                                         1000 - (kept[i].dist * 1000) \div max_distance,
                                         "vector")]
         IN Found(Take(SortDesc(results), top_k))

\* 1000 * ln(k + 0.5) for k = 0, 1, ...
LnHalf == <<-693, 405, 916, 1253, 1504, 1705, 1872, 2015>>

Words(corpus) == UNION {Range(corpus[i]) : i \in DOMAIN corpus}
DocFreq(corpus, w) == Cardinality({i \in DOMAIN corpus : Freq(corpus[i], w) > 0})

\* sum(s) for a sequence of numbers
RECURSIVE Sum(_)
Sum(s) == IF s = <<>> THEN 0 ELSE Head(s) + Sum(Tail(s))

\* BM25Okapi._calc_idf: ln(N - n + 0.5) - ln(n + 0.5); a negative idf is replaced by
\* epsilon (0.25) times the average idf
RawIdf(corpus, w) ==
    LnHalf[Len(corpus) - DocFreq(corpus, w) + 1] - LnHalf[DocFreq(corpus, w) + 1]
RECURSIVE IdfSum(_, _)
IdfSum(corpus, S) ==
    IF S = {} THEN 0
    ELSE LET w == CHOOSE w \in S : TRUE IN RawIdf(corpus, w) + IdfSum(corpus, S \ {w})
AverageIdf(corpus) == IdfSum(corpus, Words(corpus)) \div Cardinality(Words(corpus))
Idf(corpus, w) ==
    IF w \notin Words(corpus) THEN 0
    ELSE IF RawIdf(corpus, w) < 0 THEN AverageIdf(corpus) \div 4
    ELSE RawIdf(corpus, w)

\* BM25Okapi.get_scores with k1 = 1.5, b = 0.75: document i scores, for each query
\* token, idf * f * (k1 + 1) / (f + k1 * (1 - b + b * len_i / avgdl))
\*          = idf * 20 f T / (8 f T + 3 T + 9 len_i N),  T the corpus' token count
TotalTokens(corpus) == Sum([i \in DOMAIN corpus |-> Len(corpus[i])])
get_scores(corpus, tokenized_query) ==
    [i \in DOMAIN corpus |->
        LET T == TotalTokens(corpus)
            Term(w) == LET f == Freq(corpus[i], w)
                       IN (Idf(corpus, w) * 20 * f * T)
                          \div (8 * f * T + 3 * T + 9 * Len(corpus[i]) * Len(corpus))
        IN Sum([n \in DOMAIN tokenized_query |-> Term(tokenized_query[n])])]

\* np.argsort(scores)[::-1] as 0-based indices: highest score first, and among
\* equal scores the higher index first
RECURSIVE ArgsortReversed(_, _)
ArgsortReversed(scores, S) ==
    IF S = {} THEN <<>>
    ELSE LET best == CHOOSE i \in S : \A j \in S :
                        \/ scores[i] > scores[j]
                        \/ (scores[i] = scores[j] /\ i >= j)
         IN <<best - 1>> \o ArgsortReversed(scores, S \ {best})

\* VectorStore.bm25_search
bm25_search(self, query, top_k) ==
    IF ~self.bm25.built \/ self.documents = <<>> THEN Found(<<>>)
    ELSE LET scores == get_scores(self.bm25.corpus, _tokenize_text(query))
             top_indices == Take(ArgsortReversed(scores, DOMAIN scores), top_k)
             max_score == IF MaxOf(scores) > 0 THEN MaxOf(scores) ELSE 1
             Positive(idx) == scores[idx + 1] > 0
             used == SelectSeq(top_indices, Positive)
         IN IF \E n \in DOMAIN used : used[n] >= Len(self.documents)
            THEN Failed("IndexError")
            ELSE Found([n \in DOMAIN used |->
                          SearchResult(self.documents[used[n] + 1],
                                       (scores[used[n] + 1] * 1000) \div max_score,
                                       "bm25")])

\* combined_scores[doc_id] = entry: a dict keeps the position of a key already present
RECURSIVE DictSet(_, _)
DictSet(entries, entry) ==
    IF entries = <<>> THEN <<entry>>
    ELSE IF Head(entries).id = entry.id THEN <<entry>> \o Tail(entries)
    ELSE <<Head(entries)>> \o DictSet(Tail(entries), entry)

HasKey(entries, id) == \E i \in DOMAIN entries : entries[i].id = id

\* the first loop of hybrid_search: one entry per id of the vector results
RECURSIVE AddVectorScores(_, _)
AddVectorScores(combined_scores, vector_results) ==
    IF vector_results = <<>> THEN combined_scores
    ELSE AddVectorScores(
            DictSet(combined_scores,
                    [id |-> Head(vector_results).document.id,
                     document |-> Head(vector_results).document,
                     vector_score |-> Head(vector_results).score,
                     bm25_score |-> 0]),
            Tail(vector_results))

\* the second loop: an id already present only receives the keyword score
RECURSIVE AddBm25Scores(_, _)
AddBm25Scores(combined_scores, bm25_results) ==
    IF bm25_results = <<>> THEN combined_scores
    ELSE LET r == Head(bm25_results)
             next == IF HasKey(combined_scores, r.document.id)
                     THEN [i \in DOMAIN combined_scores |->
                             IF combined_scores[i].id = r.document.id
                             THEN [combined_scores[i] EXCEPT !.bm25_score = r.score]
                             ELSE combined_scores[i]]
                     ELSE combined_scores \o <<[id |-> r.document.id, document |-> r.document,
                                                vector_score |-> 0, bm25_score |-> r.score]>>
         IN AddBm25Scores(next, Tail(bm25_results))

\* hybrid_search from "Combine scores" on: the two loops, the weighted sum, the
\* filter, the sort and the cut
CombineScores(vector_results, bm25_results, top_k, vector_weight, bm25_weight, filter_metadata) ==
    LET combined_scores == AddBm25Scores(AddVectorScores(<<>>, vector_results), bm25_results)
        Keep(e) == PassesFilter(e.document, filter_metadata)
        kept == SelectSeq(combined_scores, Keep)
        hybrid_results ==
            [i \in DOMAIN kept |->
                SearchResult(kept[i].document,
                             (vector_weight * kept[i].vector_score
                              + bm25_weight * kept[i].bm25_score) \div 1000,
                             "hybrid")]
    IN Found(Take(SortDesc(hybrid_results), top_k))

\* VectorStore.hybrid_search; the weights are in thousandths
hybrid_search(self, query, top_k, vector_weight, bm25_weight, filter_metadata, enc) ==
    IF self.documents = <<>> THEN Found(<<>>)
    ELSE LET vector_results == search(self, query, top_k * 2, filter_metadata, enc)
             bm25_results == bm25_search(self, query, top_k * 2)
         IN IF vector_results.raised # "none" THEN Failed(vector_results.raised)
            ELSE IF bm25_results.raised # "none" THEN Failed(bm25_results.raised)
            ELSE CombineScores(vector_results.results, bm25_results.results, top_k,
                               vector_weight, bm25_weight, filter_metadata)

\* VectorStore.get_stats: total_documents, faiss_index_size, bm25_initialized
get_stats(self) ==
    [total_documents |-> Len(self.documents),
     faiss_index_size |-> IF self.faiss_index.is_none THEN 0 ELSE Len(self.faiss_index.rows),
     bm25_initialized |-> self.bm25.built]

(***************************************************************************)
(* VectorStore: the documents, batches and queries it is exercised with.   *)
(* DocPool holds a document whose content yields no token, two documents   *)
(* with the same id, and one that brings its own embedding.                *)
(***************************************************************************)
MaxDocs == 3
MaxBatch == 2
MaxTopK == 2

\* a document with upper-case letters and punctuation
DocVat == Doc("a", <<"VAT", ",", "rate">>, {<<"court", "supreme">>}, NoEmbedding)
DocCourt == Doc("b", <<"Court", "vat">>, {<<"court", "city">>}, NoEmbedding)
\* a second document with id "a", which brings its own embedding
DocTwin == Doc("a", <<"court">>, {}, <<0, 2>>)
\* a document whose content yields no token
DocBlank == Doc("d", <<",">>, {<<"court", "supreme">>}, NoEmbedding)

DocPool == {DocVat, DocCourt, DocTwin, DocBlank}

\* the caller adds the documents of a feed in batches of up to MaxBatch, in order
Feeds == {
    <<DocVat, DocCourt, DocTwin, DocBlank>>,
    <<DocBlank, DocVat, DocCourt, DocTwin>>,
    <<DocBlank, DocBlank, DocVat, DocCourt>>,
    <<DocTwin, DocVat, DocVat, DocCourt>>,
    <<DocCourt, DocTwin, DocVat, DocBlank>>,
    <<DocVat, DocBlank, DocTwin, DocCourt>> }
MaxRemovals == 1

Queries == {<<>>, <<"VAT">>, <<"rate", ".">>, <<"court", "rate">>}
TopKs == 1..MaxTopK
Filters == {{}, {<<"court", "supreme">>}}

(***************************************************************************)
(* VectorStore: operations.  The program holds one store object on one     *)
(* index directory; constructing a new VectorStore on the directory        *)
(* replaces the object (a restart).                                        *)
(***************************************************************************)
Self == [faiss_index |-> faiss_index, documents |-> documents, bm25 |-> bm25,
         tokenized_corpus |-> tokenized_corpus]

NotHeld == [held |-> FALSE, self |-> NoStore]

\* the attributes and the directory after an operation with outcome r
Becomes(r) ==
    /\ faiss_index' = r.self.faiss_index
    /\ documents' = r.self.documents
    /\ bm25' = r.self.bm25
    /\ tokenized_corpus' = r.self.tokenized_corpus
    /\ disk' = r.disk
    /\ raised' = r.raised
    /\ returned' = r.ret

StoreInit ==
    /\ vs_pc = "none"
    /\ faiss_index = NoneIndex
    /\ documents = <<>>
    /\ bm25 = NoBm25
    /\ tokenized_corpus = <<>>
    /\ disk = EmptyDisk
    /\ last_op = "none"
    /\ prev_op = "none"
    /\ raised = "none"
    /\ returned = -1
    /\ prev_store = NotHeld
    /\ only_adds = TRUE
    /\ feed \in Feeds
    /\ cursor = 0
    /\ removals = 0

\* store = VectorStore(index_path); an exception out of __init__ leaves no object
NewStore ==
    LET r == __init__(disk)
    IN /\ Becomes(IF r.raised = "none" THEN r ELSE [r EXCEPT !.self = NoStore])
       /\ vs_pc' = IF r.raised = "none" THEN "ready" ELSE "none"
       /\ prev_store' = [held |-> vs_pc = "ready", self |-> Self]
       /\ last_op' = "new"
       /\ prev_op' = last_op
       /\ UNCHANGED <<only_adds, feed, cursor, removals, notStoreVars>>

\* await store.add_documents(batch), batch the next n documents of the feed; a
\* caller whose call raised offers the same documents again
AddDocuments ==
    /\ vs_pc = "ready"
    /\ \E n \in 0..MaxBatch, enc \in EncodeOutcomes :
          /\ cursor + n <= Len(feed)
          /\ Len(documents) + n <= MaxDocs
          /\ LET r == add_documents(Self, disk, SubSeq(feed, cursor + 1, cursor + n), enc)
             IN /\ Becomes(r)
                /\ only_adds' = (only_adds /\ r.raised = "none")
                /\ cursor' = IF r.raised = "none" THEN cursor + n ELSE cursor
    /\ prev_store' = NotHeld
    /\ last_op' = "add"
    /\ prev_op' = last_op
    /\ UNCHANGED <<vs_pc, feed, removals, notStoreVars>>

\* store.save()
Save ==
    /\ vs_pc = "ready"
    /\ Becomes(save(Self, disk))
    /\ only_adds' = FALSE
    /\ prev_store' = NotHeld
    /\ last_op' = "save"
    /\ prev_op' = last_op
    /\ UNCHANGED <<vs_pc, feed, cursor, removals, notStoreVars>>

\* store.load()
Load ==
    /\ vs_pc = "ready"
    /\ Becomes(load(Self, disk))
    /\ only_adds' = FALSE
    /\ prev_store' = NotHeld
    /\ last_op' = "load"
    /\ prev_op' = last_op
    /\ UNCHANGED <<vs_pc, feed, cursor, removals, notStoreVars>>

\* the environment removes one artifact from the index directory
RemoveArtifact ==
    /\ removals < MaxRemovals
    /\ \E name \in {"faiss", "documents", "bm25"} :
          /\ disk[name].exists
          /\ disk' = [disk EXCEPT ![name] = EmptyDisk[name]]
    /\ removals' = removals + 1
    /\ only_adds' = FALSE
    /\ prev_store' = NotHeld
    /\ last_op' = "remove"
    /\ prev_op' = last_op
    /\ raised' = "none"
    /\ returned' = -1
    /\ UNCHANGED <<vs_pc, faiss_index, documents, bm25, tokenized_corpus, feed, cursor,
                   notStoreVars>>

StoreNext == NewStore \/ AddDocuments \/ Save \/ Load \/ RemoveArtifact

\* the state before the first VectorStore is constructed on an empty directory
InitStore == WritersParked /\ UsageParked /\ ConvParked /\ RetryParked /\ DispatchParked /\ IngestParked /\ CiteParked /\ QueryParked /\ RouteParked /\ SearchParked /\ StoreInit

SpecStore == InitStore /\ [][StoreNext]_vars

(***************************************************************************)
(* VectorStore: properties                                                 *)
(***************************************************************************)
\* what a caller can compare of a search's outcome: the exception, or the
\* (document id, score) list
IdsAndScores(r) ==
    [raised |-> r.raised,
     results |-> [i \in DOMAIN r.results |-> <<r.results[i].document.id, r.results[i].score>>]]

\* stores a and b answer every query of Queries alike in all three searches
SameSearchResults(a, b) ==
    \A q \in Queries, k \in TopKs, f \in Filters :
        /\ IdsAndScores(search(a, q, k, f, "ok")) = IdsAndScores(search(b, q, k, f, "ok"))
        /\ IdsAndScores(bm25_search(a, q, k)) = IdsAndScores(bm25_search(b, q, k))
        /\ IdsAndScores(hybrid_search(a, q, k, 500, 500, f, "ok"))
           = IdsAndScores(hybrid_search(b, q, k, 500, 500, f, "ok"))

\* C8 (as claimed): whenever a store is saved and a fresh VectorStore is then
\* constructed on the same path, the construction succeeds, the fresh store holds
\* the same documents in the same order, and every query gets the same result list
\* (ids and scores) from search, bm25_search and hybrid_search as the saved store
\* gave - for every document set the saved store can hold, the empty one included.
C8_SaveLoadRoundTrip ==
    (last_op = "new" /\ prev_op = "save" /\ prev_store.held) =>
        /\ raised = "none"
        /\ vs_pc = "ready"
        /\ documents = prev_store.self.documents
        /\ SameSearchResults(Self, prev_store.self)

C10_LoadToleratesMissingSparse ==
    last_op = "load" =>
        /\ (disk.faiss.exists /\ disk.documents.exists /\ ~disk.bm25.exists) =>
              /\ raised = "none"
              /\ documents = disk.documents.docs
              /\ tokenized_corpus = TokenizeAll(documents)
              /\ bm25 = BM25Okapi(tokenized_corpus)
        /\ (~disk.faiss.exists \/ ~disk.documents.exists) => raised = "FileNotFoundError"

(***************************************************************************)
(*                            DisputeService                               *)
(*                                                                         *)
(* Metadata values are Python objects of any type; the model writes each   *)
(* as a string that names the object:                                      *)
(*   a date string 'YYYY-MM-DD' as itself, "15/05/2023" a string in        *)
(*   another format, "int:20230515" the integer 20230515,                  *)
(*   "list:166" the list ['166'], "list:166,168" the list ['166', '168'],  *)
(*   "str:166" the string '166', "int:166" the integer 166.                *)
(* A date is written as its ISO string, date.today() as "today".           *)
(***************************************************************************)
\* the values that are not of type str
NonStrings == {"int:20230515", "int:166", "list:166", "list:166,168"}

\* the order of the dates
Ordinal(d) ==
    CASE d = "2023-01-01" -> 1
      [] d = "2023-05-15" -> 2
      [] d = "2023-12-31" -> 3
      [] d = "2024-01-01" -> 4
      [] d = "2024-02-01" -> 5
      [] OTHER -> 0

\* datetime.strptime(v, "%Y-%m-%d").date(): TypeError for a value that is no str,
\* ValueError for a string in another format
strptime(v) ==
    IF v \in NonStrings \/ v = NoneVal THEN [raised |-> "TypeError", date |-> NoneVal]
    ELSE IF Ordinal(v) = 0 THEN [raised |-> "ValueError", date |-> NoneVal]
    ELSE [raised |-> "none", date |-> v]

\* metadata.get(k, default)
GetOr(metadata, k, default) ==
    IF \E p \in metadata : p[1] = k THEN (CHOOSE p \in metadata : p[1] = k)[2] ELSE default

\* the list a cited_articles value is, if it is one
ListItems(v) ==
    CASE v = "list:" -> <<>>
      [] v = "list:166" -> <<"166">>
      [] v = "list:166,168" -> <<"166", "168">>
      [] OTHER -> <<>>
IsList(v) == v \in {"list:", "list:166", "list:166,168"}

\* "article in case_articles": membership in a list, substring of a str (the
\* articles asked for are as long as the string, so substring is equality),
\* TypeError for a value that is neither (an int, None)
ArticleIn(article, case_articles) ==
    IF IsList(case_articles)
    THEN [raised |-> "none", found |-> article \in Range(ListItems(case_articles))]
    ELSE IF case_articles = "str:166"
    THEN [raised |-> "none", found |-> article = "166"]
    ELSE [raised |-> "TypeError", found |-> FALSE]

\* any(article in case_articles for article in filters.cited_articles): the
\* generator stops at the first hit, and raises where a membership test raises
RECURSIVE AnyArticleIn(_, _)
AnyArticleIn(articles, case_articles) ==
    IF articles = <<>> THEN [raised |-> "none", found |-> FALSE]
    ELSE LET r == ArticleIn(Head(articles), case_articles)
         IN IF r.raised # "none" \/ r.found THEN r
            ELSE AnyArticleIn(Tail(articles), case_articles)

\* one pass of the loop of _apply_filters: "keep", "drop" or the exception raised
FilterOne(result, filters) ==
    LET metadata == result.document.metadata
        case_date_str == Get(metadata, "date")
        parsed == strptime(case_date_str)
        date_step ==
            IF filters.date_from = NoneVal /\ filters.date_to = NoneVal THEN "keep"
            ELSE IF case_date_str = NoneVal \/ case_date_str = "" THEN "keep"
            ELSE IF parsed.raised = "TypeError" THEN "TypeError"
            ELSE IF parsed.raised = "ValueError" THEN "keep"
            ELSE IF filters.date_from # NoneVal
                    /\ Ordinal(parsed.date) < Ordinal(filters.date_from) THEN "drop"
            ELSE IF filters.date_to # NoneVal
                    /\ Ordinal(parsed.date) > Ordinal(filters.date_to) THEN "drop"
            ELSE "keep"
        hit == AnyArticleIn(filters.cited_articles, GetOr(metadata, "cited_articles", "list:"))
        article_step ==
            IF filters.cited_articles = <<>> THEN "keep"
            ELSE IF hit.raised # "none" THEN hit.raised
            ELSE IF hit.found THEN "keep" ELSE "drop"
    IN IF date_step # "keep" THEN date_step ELSE article_step

\* DisputeService._apply_filters: [raised, results]
RECURSIVE ApplyFiltersLoop(_, _, _)
ApplyFiltersLoop(results, filters, filtered) ==
    IF results = <<>> THEN Found(filtered)
    ELSE LET step == FilterOne(Head(results), filters)
         IN IF step = "keep"
            THEN ApplyFiltersLoop(Tail(results), filters, Append(filtered, Head(results)))
            ELSE IF step = "drop" THEN ApplyFiltersLoop(Tail(results), filters, filtered)
            ELSE Failed(step)

_apply_filters(results, filters) ==
    IF ~filters.given THEN Found(results) ELSE ApplyFiltersLoop(results, filters, <<>>)

\* DisputeCase(...): pydantic rejects a case_id or court that is no str and
\* cited_articles that are no list of str
DisputeCase(case_id, court, case_date, summary, cited_articles, relevance_score) ==
    IF case_id \in NonStrings \/ court \in NonStrings \/ ~IsList(cited_articles)
    THEN [raised |-> "ValidationError", case |-> NoneVal]
    ELSE [raised |-> "none",
          case |-> [case_id |-> case_id, court |-> court, case_date |-> case_date,
                    summary |-> summary, cited_articles |-> ListItems(cited_articles),
                    relevance_score |-> relevance_score, full_text_available |-> TRUE]]

DefaultCourt == "unknown court"

\* one pass of the loop of _convert_to_dispute_cases
ConvertOne(result) ==
    LET metadata == result.document.metadata
        parsed == strptime(GetOr(metadata, "date", "2023-01-01"))
    IN IF parsed.raised = "TypeError" THEN [raised |-> "TypeError", case |-> NoneVal]
       ELSE DisputeCase(GetOr(metadata, "case_id", result.document.id),
                        GetOr(metadata, "court", DefaultCourt),
                        IF parsed.raised = "ValueError" THEN "today" ELSE parsed.date,
                        result.document.content,
                        GetOr(metadata, "cited_articles", "list:"),
                        result.score)

\* DisputeService._convert_to_dispute_cases: [raised, results]
RECURSIVE ConvertLoop(_, _)
ConvertLoop(search_results_, cases) ==
    IF search_results_ = <<>> THEN Found(cases)
    ELSE LET c == ConvertOne(Head(search_results_))
         IN IF c.raised # "none" THEN Failed(c.raised)
            ELSE ConvertLoop(Tail(search_results_), Append(cases, c.case))

_convert_to_dispute_cases(search_results_) == ConvertLoop(search_results_, <<>>)

\* round(x, 2) of the fraction num / (1000 den), in hundredths: to the nearest, a
\* tie to the even neighbour
Round2(num, den) ==
    LET q == num \div (10 * den)
        r == num % (10 * den)
    IN IF 2 * r > 10 * den THEN q + 1
       ELSE IF 2 * r < 10 * den THEN q
       ELSE q + (q % 2)

\* the mean taken over all the cases instead of the first three
ConfidenceOverAll(cases) ==
    IF cases = <<>> THEN 0
    ELSE Round2(Sum([i \in DOMAIN cases |-> cases[i].relevance_score]), Len(cases))

\* DisputeService._calculate_confidence, in hundredths
_calculate_confidence(cases) ==
    IF cases = <<>> THEN 0
    ELSE LET top_scores == [i \in 1..Min(3, Len(cases)) |-> cases[i].relevance_score]
         IN Round2(Sum(top_scores), Len(top_scores))

\* the number a digit run denotes
NumValue(tok) ==
    CASE tok = "1" -> 1 [] tok = "2" -> 2 [] tok = "166" -> 166 [] tok = "168" -> 168
      [] OTHER -> 0

\* r'მუხლი\s+(\d+(?:\.\d+)?(?:\.[ა-ჰ])?)' at position i of an answer (a token
\* sequence as in CitationExtractor): the captured group, or <<>> for no match
ArticlePattern(t, i) ==
    IF ~(At(t, i) = "M" /\ At(t, i + 1) = " " /\ IsNum(At(t, i + 2))) THEN <<>>
    ELSE LET sub == IF At(t, i + 3) = "." /\ IsNum(At(t, i + 4))
                    THEN <<".", At(t, i + 4)>> ELSE <<>>
             j == i + 3 + Len(sub)
             letter == IF At(t, j) = "." /\ IsLetterStart(At(t, j + 1))
                       THEN <<".", FirstLetter(At(t, j + 1))>> ELSE <<>>
         IN <<At(t, i + 2)>> \o sub \o letter

\* r'(?:article|მუხლი|მუხ\.)\s*(\d+)' at position i of the lower-cased answer
BarePattern(t, i) ==
    IF At(t, i) \in {"article", "Article", "M"} /\ IsNum(At(t, SkipWs(t, i + 1)))
    THEN <<At(t, SkipWs(t, i + 1))>>
    ELSE <<>>

\* list(set(matches + matches2))
ArticleSet(t) ==
    ({ArticlePattern(t, i) : i \in DOMAIN t} \cup {BarePattern(t, i) : i \in DOMAIN t}) \ {<<>>}

\* articles.sort(key=lambda x: float(re.search(r'\d+', x).group())); the order among
\* equal keys is that of the set's iteration, listed here shortest first
RECURSIVE SortArticles(_)
SortArticles(S) ==
    IF S = {} THEN <<>>
    ELSE LET first == CHOOSE a \in S : \A b \in S :
                         \/ NumValue(a[1]) < NumValue(b[1])
                         \/ (NumValue(a[1]) = NumValue(b[1]) /\ Len(a) <= Len(b))
         IN <<first>> \o SortArticles(S \ {first})

\* DisputeService._extract_tax_articles
_extract_tax_articles(answer) == SortArticles(ArticleSet(answer))

UnavailableText == <<"the dispute service is unavailable">>
NoCasesText == <<"no relevant cases were found">>
ErrorText == <<"the answer could not be generated">>

\* DisputeResponse(...) of the two early returns of query
EarlyResponse(answer) ==
    [answer |-> answer, cases_cited |-> <<>>, relevant_tax_articles |-> <<>>,
     confidence |-> 0, model_used |-> "none"]

\* steps 7 and 8 of query and its DisputeResponse
FinalResponse(answer, model_used, cases) ==
    [answer |-> answer, cases_cited |-> cases,
     relevant_tax_articles |-> _extract_tax_articles(answer),
     confidence |-> _calculate_confidence(cases), model_used |-> model_used]

\* "if not filtered_results" never taken
NeverShortCircuits(filtered) == FALSE

\* "if not filtered_results": the early return of query
ShortCircuits(filtered) == filtered = <<>>

\* a fallback that does not look at how the primary call ended
AlwaysFallsBack(primary_ok, claude_client) ==
    IF claude_client THEN "secondary" ELSE IF primary_ok THEN "done" ELSE "error"

\* _generate_answer after the primary call: return its answer, or go on to the
\* secondary client if one is configured, or return the error text
AfterPrimary(primary_ok, claude_client) ==
    IF primary_ok THEN "done" ELSE IF claude_client THEN "secondary" ELSE "error"

(***************************************************************************)
(* DisputeService: the stores, filters and questions query is called with, *)
(* and the behaviours of the language-model clients.                       *)
(***************************************************************************)
Case(id, content, metadata) == Doc(id, content, metadata, NoEmbedding)

CaseA == Case("case_001", <<"VAT", "refund", "court">>,
              {<<"case_id", "001">>, <<"court", "supreme">>, <<"date", "2023-05-15">>,
               <<"cited_articles", "list:166">>})
CaseB == Case("case_002", <<"Court", "fine">>,
              {<<"court", "city">>, <<"date", "2024-02-01">>,
               <<"cited_articles", "list:166,168">>})
\* no metadata at all
CaseBare == Case("case_003", <<"rate">>, {})
\* a date string in another format
CaseBadDate == Case("case_004", <<"vat", "rate">>,
                    {<<"court", "supreme">>, <<"date", "15/05/2023">>})
\* a date that is not a string
CaseIntDate == Case("case_005", <<"vat">>,
                    {<<"court", "supreme">>, <<"date", "int:20230515">>})
\* cited_articles that are not a list
CaseStrArticles == Case("case_006", <<"court">>,
                        {<<"court", "city">>, <<"date", "2023-05-15">>,
                         <<"cited_articles", "str:166">>})

Corpora == {
    <<>>,
    <<CaseA, CaseB, CaseBare>>,
    <<CaseA, CaseBadDate, CaseBare>>,
    <<CaseB, CaseIntDate>>,
    <<CaseStrArticles, CaseA>> }

\* the VectorStore that holds a corpus: constructed on an empty directory, the
\* corpus added in one batch
StoreOf(corpus) ==
    add_documents(_initialize_empty_index(NoStore), EmptyDisk, corpus, "ok").self

QueryStores == {[absent |-> TRUE, self |-> NoStore]}
               \cup {[absent |-> FALSE, self |-> StoreOf(c)] : c \in Corpora}

DisputeFilters(court, date_from, date_to, cited_articles) ==
    [given |-> TRUE, court |-> court, date_from |-> date_from, date_to |-> date_to,
     cited_articles |-> cited_articles]

FilterChoices == {
    NoFilters,
    DisputeFilters(NoneVal, NoneVal, NoneVal, <<>>),
    DisputeFilters("supreme", NoneVal, NoneVal, <<>>),
    DisputeFilters("appeal", NoneVal, NoneVal, <<>>),
    DisputeFilters(NoneVal, "2024-01-01", NoneVal, <<>>),
    DisputeFilters(NoneVal, "2023-01-01", "2023-12-31", <<"166">>),
    DisputeFilters(NoneVal, "2023-05-15", "2024-02-01", <<>>),
    DisputeFilters(NoneVal, NoneVal, NoneVal, <<"168">>) }

Questions == {<<"VAT", "refund">>, <<"court">>}

AnswerPlain == <<"VAT", " ", "rate">>
AnswerCiting == <<"M", " ", "166", ".", "1", " ", "da", " ", "Article", " ", "168">>
Answers == {AnswerPlain, AnswerCiting}

\* generate_response returns a text or raises
LlmOutcomes == {[ok |-> TRUE, text |-> a] : a \in Answers} \cup {[ok |-> FALSE, text |-> <<>>]}

(***************************************************************************)
(* DisputeService.query, one action per step of the call.                  *)
(***************************************************************************)
QueryInit ==
    /\ q_pc = "idle"
    /\ q_store \in QueryStores
    /\ q_claude \in BOOLEAN
    /\ q_initialized = FALSE
    /\ q_filters \in FilterChoices
    /\ q_question \in Questions
    /\ q_top_k \in TopKs
    /\ search_results = <<>>
    /\ filtered_results = <<>>
    /\ dispute_cases = <<>>
    /\ llm_calls = <<>>
    /\ response = NoResponse
    /\ q_raised = "none"

\* query returns r
Returns(r) ==
    /\ response' = r
    /\ q_pc' = "done"

\* an exception leaves query
Raises(exc) ==
    /\ q_raised' = exc
    /\ q_pc' = "raised"

\* query up to the check of self.vector_store; initialize() catches what it raises
QueryStart ==
    /\ q_pc = "idle"
    /\ q_initialized' = TRUE
    /\ IF q_store.absent
       THEN Returns(EarlyResponse(UnavailableText))
       ELSE q_pc' = "search" /\ UNCHANGED response
    /\ UNCHANGED <<q_store, q_claude, q_filters, q_question, q_top_k, search_results,
                   filtered_results, dispute_cases, llm_calls, q_raised, notQueryVars>>

\* metadata_filter of query: the court, if the filters name one
MetadataFilter(filters) ==
    IF filters.given /\ filters.court # NoneVal /\ filters.court # ""
    THEN {<<"court", filters.court>>} ELSE {}

\* steps 1 and 2: hybrid_search, the encoder working or failing on the question
QuerySearch ==
    /\ q_pc = "search"
    /\ \E enc \in EncodeOutcomes :
          LET r == hybrid_search(q_store.self, q_question, q_top_k, 500, 500,
                                 MetadataFilter(q_filters), enc)
          IN IF r.raised # "none"
             THEN Raises(r.raised) /\ UNCHANGED search_results
             ELSE /\ search_results' = r.results
                  /\ q_pc' = "filter"
                  /\ UNCHANGED q_raised
    /\ UNCHANGED <<q_store, q_claude, q_initialized, q_filters, q_question, q_top_k,
                   filtered_results, dispute_cases, llm_calls, response, notQueryVars>>

\* step 3: _apply_filters and the early return on no result
QueryFilter ==
    /\ q_pc = "filter"
    /\ LET r == _apply_filters(search_results, q_filters)
       IN IF r.raised # "none"
          THEN Raises(r.raised) /\ UNCHANGED <<filtered_results, response>>
          ELSE /\ filtered_results' = r.results
               /\ UNCHANGED q_raised
               /\ IF ShortCircuits(r.results)
                  THEN Returns(EarlyResponse(NoCasesText))
                  ELSE q_pc' = "convert" /\ UNCHANGED response
    /\ UNCHANGED <<q_store, q_claude, q_initialized, q_filters, q_question, q_top_k,
                   search_results, dispute_cases, llm_calls, notQueryVars>>

\* steps 4 and 5: _convert_to_dispute_cases (and _build_context, which only formats)
QueryConvert ==
    /\ q_pc = "convert"
    /\ LET r == _convert_to_dispute_cases(filtered_results)
       IN IF r.raised # "none"
          THEN Raises(r.raised) /\ UNCHANGED dispute_cases
          ELSE /\ dispute_cases' = r.results
               /\ q_pc' = "primary"
               /\ UNCHANGED q_raised
    /\ UNCHANGED <<q_store, q_claude, q_initialized, q_filters, q_question, q_top_k,
                   search_results, filtered_results, llm_calls, response, notQueryVars>>

\* step 6, _generate_answer: the call of the primary client, and steps 7 and 8 when
\* no further call follows
CallPrimary ==
    /\ q_pc = "primary"
    /\ \E out \in LlmOutcomes :
          /\ llm_calls' = Append(llm_calls, [client |-> "gemini", ok |-> out.ok, text |-> out.text])
          /\ LET next == AfterPrimary(out.ok, q_claude)
             IN IF next = "done"
                THEN Returns(FinalResponse(out.text, "gemini-pro", dispute_cases))
                ELSE IF next = "error"
                THEN Returns(FinalResponse(ErrorText, "error", dispute_cases))
                ELSE q_pc' = "secondary" /\ UNCHANGED response
    /\ UNCHANGED <<q_store, q_claude, q_initialized, q_filters, q_question, q_top_k,
                   search_results, filtered_results, dispute_cases, q_raised, notQueryVars>>

\* _generate_answer: the call of the secondary client, then steps 7 and 8
CallSecondary ==
    /\ q_pc = "secondary"
    /\ \E out \in LlmOutcomes :
          /\ llm_calls' = Append(llm_calls, [client |-> "claude", ok |-> out.ok, text |-> out.text])
          /\ IF out.ok
             THEN Returns(FinalResponse(out.text, "claude-3-sonnet", dispute_cases))
             ELSE Returns(FinalResponse(ErrorText, "error", dispute_cases))
    /\ UNCHANGED <<q_store, q_claude, q_initialized, q_filters, q_question, q_top_k,
                   search_results, filtered_results, dispute_cases, q_raised, notQueryVars>>

QueryNext == QueryStart \/ QuerySearch \/ QueryFilter \/ QueryConvert \/ CallPrimary
             \/ CallSecondary

\* the state at the call of query on a constructed DisputeService
InitQuery == WritersParked /\ UsageParked /\ ConvParked /\ RetryParked /\ DispatchParked /\ IngestParked /\ CiteParked /\ StoreParked /\ RouteParked /\ SearchParked /\ QueryInit

SpecQuery == InitQuery /\ [][QueryNext]_vars

(***************************************************************************)
(* DisputeService: properties                                              *)
(***************************************************************************)
\* the call got as far as _generate_answer and returned
Generated == q_pc = "done" /\ response.model_used # "none"

\* C1: of the generate_response calls of one query the first is the primary
\* client's and there is no second call of it; the secondary client is called at
\* most once, only when it is configured and only after the primary call raised
\* (and then it is called); the answer returned is the primary's text if that call
\* succeeded, else the secondary's text if that call was made and succeeded, else
\* the fixed error text with model_used = "error"; and once a client has been
\* called no exception leaves query.
C1_PrimaryThenSecondaryOnce ==
    /\ Len(llm_calls) <= 2
    /\ llm_calls # <<>> => llm_calls[1].client = "gemini"
    /\ Len(llm_calls) = 2 =>
          llm_calls[2].client = "claude" /\ ~llm_calls[1].ok /\ q_claude
    /\ q_pc = "secondary" => Len(llm_calls) = 1
    /\ llm_calls # <<>> => (q_raised = "none" /\ q_pc # "raised")
    /\ Generated =>
          /\ llm_calls # <<>>
          /\ (~llm_calls[1].ok /\ q_claude) => Len(llm_calls) = 2
          /\ IF llm_calls[1].ok
             THEN response.answer = llm_calls[1].text /\ response.model_used = "gemini-pro"
             ELSE IF Len(llm_calls) = 2 /\ llm_calls[2].ok
             THEN response.answer = llm_calls[2].text
                  /\ response.model_used = "claude-3-sonnet"
             ELSE response.answer = ErrorText /\ response.model_used = "error"

\* C1 witness: the primary call raised, the secondary call succeeded, and its text
\* is the answer.
C1_Witness ==
    /\ Generated
    /\ Len(llm_calls) = 2
    /\ ~llm_calls[1].ok /\ llm_calls[2].ok
    /\ response.answer = llm_calls[2].text
    /\ response.model_used = "claude-3-sonnet"

\* C2 (as claimed): no exception leaves query, whatever the encoder, the index, the
\* clients and the stored metadata do; a call that ended has returned a
\* DisputeResponse with an answer text and a model marker.
C2_QueryNeverRaises ==
    /\ q_pc # "raised"
    /\ q_raised = "none"
    /\ q_pc = "done" => (response.answer # <<>> /\ response.model_used # NoneVal)

\* C3: a language-model client is called only when at least one search result
\* survived _apply_filters; a query on an absent store or an empty corpus never
\* raises, and when the store is absent, the corpus empty or no result survived,
\* the call returns a fixed text with confidence 0, no cited case, no article and
\* model "none", without any call of a client.
C3_LlmOnlyWithResults ==
    /\ llm_calls # <<>> => filtered_results # <<>>
    /\ q_pc \in {"convert", "primary", "secondary"} => filtered_results # <<>>
    /\ (q_store.absent \/ q_store.self.documents = <<>>) => q_pc # "raised"
    /\ (q_pc = "done"
        /\ (q_store.absent \/ q_store.self.documents = <<>> \/ filtered_results = <<>>)) =>
          /\ llm_calls = <<>>
          /\ response = EarlyResponse(IF q_store.absent THEN UnavailableText ELSE NoCasesText)
          /\ response.confidence = 0
          /\ response.cases_cited = <<>>
          /\ response.relevant_tax_articles = <<>>

\* C3 witness: the search found cases, the filters left none, and query returned the
\* fixed answer without a call of a client.
C3_Witness ==
    /\ q_pc = "done"
    /\ search_results # <<>>
    /\ filtered_results = <<>>
    /\ llm_calls = <<>>
    /\ response = EarlyResponse(NoCasesText)

\* dense row i and sparse row i are derived from documents[i], and the three are
\* of one size
RowsAligned(self) ==
    /\ ~self.faiss_index.is_none
    /\ Len(self.faiss_index.rows) = Len(self.documents)
    /\ Len(self.tokenized_corpus) = Len(self.documents)
    /\ \A i \in DOMAIN self.documents :
          /\ self.faiss_index.rows[i] = self.documents[i].embedding
          /\ self.tokenized_corpus[i] = _tokenize_text(self.documents[i].content)
    /\ self.documents # <<>> => (self.bm25.built /\ self.bm25.corpus = self.tokenized_corpus)

\* C11 (as claimed): every add_documents call of a caller that has only constructed
\* the store and added to it (the encoder working) returns the size of its batch and
\* leaves the document list equal to the list before the call followed by the batch,
\* with dense-index size = document count = number of sparse-index rows, dense row i
\* and sparse row i derived from documents[i].
C11_AppendOnlyAligned ==
    [][(only_adds /\ vs_pc = "ready" /\ last_op' = "add" /\ raised' # "EncoderError") =>
          \E n \in 0..MaxBatch :
             /\ cursor + n <= Len(feed)
             /\ returned' = n
             /\ raised' = "none"
             /\ documents' = documents \o Embedded(SubSeq(feed, cursor + 1, cursor + n))
             /\ RowsAligned(Self)']_vars

\* the weights hybrid_search is called with, in thousandths
WeightPairs == {<<500, 500>>, <<700, 300>>, <<300, 200>>, <<1000, 0>>, <<0, 1000>>}

\* the score document d has in a sub-search's result list, 0 if it is not in it
ScoreIn(results, d) ==
    IF \E j \in DOMAIN results : results[j].document = d
    THEN results[CHOOSE j \in DOMAIN results : results[j].document = d].score
    ELSE 0

DocsOf(results) == {results[j].document : j \in DOMAIN results}

\* hybrid_search(q, k, w, f) on store self scores every result by the two
\* sub-searches and leaves out no document of theirs that passes the filter, unless
\* k results of at least its score are returned
HybridCombines(self, q, k, w, f) ==
    LET h == hybrid_search(self, q, k, w[1], w[2], f, "ok")
        v == search(self, q, 2 * k, f, "ok").results
        b == bm25_search(self, q, 2 * k).results
        Combined(d) == (w[1] * ScoreIn(v, d) + w[2] * ScoreIn(b, d)) \div 1000
    IN h.raised = "none" =>
          /\ \A i \in DOMAIN h.results :
                /\ h.results[i].score = Combined(h.results[i].document)
                /\ h.results[i].document \in DocsOf(v) \cup DocsOf(b)
                /\ PassesFilter(h.results[i].document, f)
          /\ \A d \in DocsOf(v) \cup DocsOf(b) :
                PassesFilter(d, f) =>
                   \/ d \in DocsOf(h.results)
                   \/ /\ Len(h.results) = k
                      /\ \A i \in DOMAIN h.results : h.results[i].score >= Combined(d)

\* no two stored documents share an id
UniqueIds(docs) == \A i, j \in DOMAIN docs : docs[i].id = docs[j].id => i = j

\* C12 (as claimed): in every store, for every query, top_k, filter and pair of
\* weights, each result of hybrid_search has the score vector_weight * v +
\* bm25_weight * b, v and b being that document's scores in search and bm25_search
\* run with 2 * top_k (0 where it is absent), and every document of either
\* sub-result that passes the filter is returned unless top_k results of at least
\* its combined score are.
C12_HybridScoreIsWeightedSum ==
    vs_pc = "ready" =>
        \A q \in Queries, k \in TopKs, f \in Filters, w \in WeightPairs :
            HybridCombines(Self, q, k, w, f)

ScoresWithin(r, lo, hi) == \A i \in DOMAIN r.results : lo <= r.results[i].score /\ r.results[i].score <= hi

\* C13: every score returned by search and by bm25_search lies in [0,1], and every score
\* returned by hybrid_search lies in [0,1] when the two weights are non-negative and sum
\* to at most 1, for every stored corpus, query, top_k and filter (scores in thousandths).
C13_ScoresInUnitInterval ==
    vs_pc = "ready" =>
        \A q \in Queries, k \in TopKs, f \in Filters :
            /\ ScoresWithin(search(Self, q, k, f, "ok"), 0, 1000)
            /\ ScoresWithin(bm25_search(Self, q, k), 0, 1000)
            /\ \A w \in WeightPairs :
                    (w[1] >= 0 /\ w[2] >= 0 /\ w[1] + w[2] <= 1000) =>
                        ScoresWithin(hybrid_search(Self, q, k, w[1], w[2], f, "ok"), 0, 1000)

\* a store in which the three searches return results that touch both ends of the
\* interval: a vector score of 0, keyword and hybrid scores of 1
C13_Witness ==
    /\ vs_pc = "ready"
    /\ \E q \in Queries, k \in TopKs :
          LET v == search(Self, q, k, {}, "ok")
              b == bm25_search(Self, q, k)
              h == hybrid_search(Self, q, k, 500, 500, {}, "ok")
          IN /\ \E i \in DOMAIN v.results : v.results[i].score = 0
             /\ \E i \in DOMAIN b.results : b.results[i].score = 1000
             /\ \E i \in DOMAIN h.results : h.results[i].score = 1000

NonIncreasing(results) ==
    \A i, j \in DOMAIN results : i < j => results[i].score >= results[j].score

\* a search outcome that is a list of at most min(top_k, stored documents) results in
\* non-increasing score order
WellFormed(r, self, top_k) ==
    /\ r.raised = "none"
    /\ Len(r.results) <= Min(top_k, Len(self.documents))
    /\ NonIncreasing(r.results)

DuplicateIdsAdded == ~UniqueIds(SubSeq(feed, 1, cursor))

\* C15: adding two documents with the same id stores both copies, and both copies are
\* searchable: each copy is returned by search, by bm25_search and by hybrid_search when
\* it matches the query (top_k not cutting it off), and a hybrid result carries the
\* vector and keyword scores of the very copy it returns.
C15_DuplicateIdsBothSearchable ==
    (only_adds /\ vs_pc = "ready" /\ DuplicateIdsAdded) =>
        /\ documents = Embedded(SubSeq(feed, 1, cursor))
        /\ \A q \in Queries, k \in TopKs :
              LET v == search(Self, q, 2 * k, {}, "ok")
                  b == bm25_search(Self, q, 2 * k)
                  h == hybrid_search(Self, q, k, 500, 500, {}, "ok")
              IN /\ h.raised = "none"
                 /\ \A i \in DOMAIN h.results :
                       h.results[i].score =
                           (500 * ScoreIn(v.results, h.results[i].document)
                            + 500 * ScoreIn(b.results, h.results[i].document)) \div 1000
                 /\ k >= Len(documents) =>
                       /\ Range(documents) \subseteq DocsOf(search(Self, q, k, {}, "ok").results)
                       /\ \A n \in DOMAIN documents :
                             get_scores(bm25.corpus, _tokenize_text(q))[n] > 0 =>
                                 documents[n] \in DocsOf(bm25_search(Self, q, k).results)
                       /\ DocsOf(v.results) \cup DocsOf(b.results) \subseteq DocsOf(h.results)

\* the date condition of a result: no date, a date that cannot be parsed, or a date
\* within the bounds that are given (both inclusive)
DateAdmits(result, filters) ==
    LET d == Get(result.document.metadata, "date")
    IN \/ d = NoneVal \/ d = ""
       \/ Ordinal(d) = 0
       \/ /\ filters.date_from # NoneVal => Ordinal(d) >= Ordinal(filters.date_from)
          /\ filters.date_to # NoneVal => Ordinal(d) <= Ordinal(filters.date_to)

\* the article condition of a result: no article asked for, or one of them cited
ArticlesAdmit(result, filters) ==
    LET cited == GetOr(result.document.metadata, "cited_articles", "list:")
        items == IF cited = "str:166" THEN {"166"} ELSE Range(ListItems(cited))
    IN \/ filters.cited_articles = <<>>
       \/ Range(filters.cited_articles) \cap items # {}

Admitted(results, filters) ==
    LET Keep(r) == DateAdmits(r, filters) /\ ArticlesAdmit(r, filters)
    IN SelectSeq(results, Keep)

\* C16: _apply_filters returns exactly the input results, in their order, whose date
\* is missing, unparsable or within the inclusive bounds given and which, when articles
\* are asked for, cite at least one of them; with no filters the input is returned
\* unchanged.
C16_ApplyFiltersKeepsAdmitted ==
    q_pc = "filter" =>
        _apply_filters(search_results, q_filters) =
            Found(IF q_filters.given THEN Admitted(search_results, q_filters)
                  ELSE search_results)

\* relevance scores (thousandths) given to further cases
ScoreSteps == {0, 333, 500, 875, 1000}

\* the lists of cases that continue the cases of the query by up to two more
MoreCases(cases) ==
    LET Another(s) == [cases[1] EXCEPT !.relevance_score = s]
    IN {cases}
       \cup {cases \o <<Another(s)>> : s \in ScoreSteps}
       \cup {cases \o <<Another(s), Another(t)>> : s \in ScoreSteps, t \in ScoreSteps}

Abs(x) == IF x < 0 THEN -x ELSE x

\* c hundredths is the mean of the scores (thousandths) rounded to two decimals
IsRoundedMean(c, scores) ==
    Abs(10 * Len(scores) * c - Sum(scores)) <= 5 * Len(scores)

\* C17: the confidence of a response is the mean, rounded to 2 decimals, of the
\* relevance scores of the first min(3, n) surviving results (0 when n = 0); it does
\* not depend on a result after the third, lies in [0,1] when those scores do, and
\* does not decrease when one of the first three scores is raised.
C17_ConfidenceIsMeanOfTopThree ==
    q_pc = "done" =>
        LET n == Len(filtered_results)
            top == [i \in 1..Min(3, n) |-> filtered_results[i].score]
        IN /\ n = 0 => response.confidence = 0
           /\ n > 0 =>
                 /\ IsRoundedMean(response.confidence, top)
                 /\ (\A i \in DOMAIN top : 0 <= top[i] /\ top[i] <= 1000)
                       => (0 <= response.confidence /\ response.confidence <= 100)
                 /\ \A L \in MoreCases(dispute_cases) :
                       /\ _calculate_confidence(L) = _calculate_confidence(Take(L, 3))
                       /\ \A i \in 1..Min(3, Len(L)), s \in ScoreSteps :
                             s >= L[i].relevance_score =>
                                 _calculate_confidence([L EXCEPT ![i].relevance_score = s])
                                     >= _calculate_confidence(L)

\* C17 witness: a response over two cases of different scores, its confidence their
\* rounded mean, strictly between the two
C17_Witness ==
    /\ q_pc = "done"
    /\ Len(response.cases_cited) = 2
    /\ filtered_results[1].score > filtered_results[2].score
    /\ 10 * response.confidence < filtered_results[1].score
    /\ 10 * response.confidence > filtered_results[2].score

(***************************************************************************)
(* Orchestrator.auto_classify                                              *)
(*                                                                         *)
(* A message is a sequence of pieces: words (Georgian words written in     *)
(* Latin letters), the suffix "s", " " and "#".  "keyword in message" is   *)
(* the substring test, here on pieces.                                     *)
(***************************************************************************)
TAX_KEYWORDS == <<
    <<"mukhli">>,                         \* article
    <<"kodeksi">>,                        \* code
    <<"ganakveti">>,                      \* rate
    <<"gadasakhadi">>,                    \* tax
    <<"dgg">>,                            \* VAT
    <<"sashemosavlo">>,                   \* income
    <<"mogeba">>,                         \* profit
    <<"sagadasakhado", " ", "kodeksi">> >>   \* tax code

DISPUTE_KEYWORDS == <<
    <<"dokumenti", "s", " ", "#">>,       \* document #
    <<"davebis", " ", "sabcho">>,         \* disputes council
    <<"finansta", " ", "saministro">>,    \* ministry of finance
    <<"finansta", " ", "saministro", "s", " ", "davis", " ", "gadatsqvetileba">>,
    <<"sachivari">>,                      \* complaint
    <<"davis", " ", "sagani">>,           \* dispute subject
    <<"daritskhuli", " ", "tankha">>,     \* assessed amount
    <<"gasachivrebuli">>,                 \* appealed
    <<"sadavo", " ", "sakitkhi">>,        \* disputed issue
    <<"sabcho", "s", " ", "daskvna">> >>  \* council's conclusion

DOCUMENT_KEYWORDS == <<
    <<"khelshekruleba">>,                 \* contract
    <<"dokumenti">>,                      \* document
    <<"shabloni">> >>                     \* template

\* str.lower() of a piece: Mtavruli (capital) letters become Mkhedruli
LowerPiece(w) == IF w = "MUKHLI" THEN "mukhli" ELSE IF w = "DGG" THEN "dgg" ELSE w
StrLower(s) == [i \in DOMAIN s |-> LowerPiece(s[i])]

\* keyword in message_lower
IsSubstring(keyword, message_lower) ==
    \E i \in 1..(Len(message_lower) - Len(keyword) + 1) :
        SubSeq(message_lower, i, i + Len(keyword) - 1) = keyword

\* sum(1 for keyword in keywords if keyword.lower() in message_lower)
Matches(keywords, message_lower) ==
    Cardinality({n \in DOMAIN keywords : IsSubstring(StrLower(keywords[n]), message_lower)})

\* Orchestrator.auto_classify: the value of the QueryMode returned
auto_classify(message) ==
    LET message_lower == StrLower(message)
        dispute_matches == Matches(DISPUTE_KEYWORDS, message_lower)
        document_matches == Matches(DOCUMENT_KEYWORDS, message_lower)
        tax_matches == Matches(TAX_KEYWORDS, message_lower)
    IN IF dispute_matches > 0 /\ dispute_matches >= tax_matches THEN "dispute"
       ELSE IF document_matches > 0 THEN "document"
       ELSE IF tax_matches > 0 THEN "tax"
       ELSE "tax"

(***************************************************************************)
(* Orchestrator: the messages, and the call.                               *)
(***************************************************************************)
MaxWords == 3

\* the words and word groups a message is made of
WordTable == <<
    <<"sachivari">>,
    <<"davis", " ", "sagani">>,
    <<"sabcho", "s", " ", "daskvna">>,
    <<"dokumenti", "s", " ", "#">>,
    <<"dokumenti", "s">>,
    <<"shabloni">>,
    <<"dgg">>,
    <<"MUKHLI">>,
    <<"ganakveti", "s">>,
    <<"sagadasakhado", " ", "kodeksi">>,
    <<"gamarjoba">> >>

RECURSIVE JoinWords(_)
JoinWords(ids) ==
    IF ids = <<>> THEN <<>>
    ELSE IF Len(ids) = 1 THEN WordTable[ids[1]]
    ELSE WordTable[ids[1]] \o <<" ">> \o JoinWords(Tail(ids))

Messages == {JoinWords(ids) : ids \in UNION {[1..n -> DOMAIN WordTable] : n \in 0..MaxWords}}

RouteInit ==
    /\ oc_pc = "idle"
    /\ oc_message \in Messages
    /\ oc_mode = "auto"

\* await orchestrator.auto_classify(message)
AutoClassify ==
    /\ oc_pc = "idle"
    /\ oc_mode' = auto_classify(oc_message)
    /\ oc_pc' = "classified"
    /\ UNCHANGED <<oc_message, notRouteVars>>

RouteNext == AutoClassify

InitRoute == WritersParked /\ UsageParked /\ ConvParked /\ RetryParked /\ DispatchParked /\ IngestParked /\ CiteParked /\ StoreParked /\ QueryParked /\ SearchParked /\ RouteInit

SpecRoute == InitRoute /\ [][RouteNext]_vars

(***************************************************************************)
(* Orchestrator: properties                                                *)
(***************************************************************************)
d_count == Matches(DISPUTE_KEYWORDS, StrLower(oc_message))
doc_count == Matches(DOCUMENT_KEYWORDS, StrLower(oc_message))
t_count == Matches(TAX_KEYWORDS, StrLower(oc_message))

\* C18 (as claimed): a message with at least one dispute keyword and at least one tax
\* keyword is classified DISPUTE.
C18_DisputeBeatsTax ==
    (oc_pc = "classified" /\ d_count >= 1 /\ t_count >= 1) => oc_mode = "dispute"

\* C19 (as claimed): the classification is a function of the three counts; DOCUMENT is
\* returned only when d = 0 and doc >= 1, TAX whenever d = 0 and doc = 0 (no keyword
\* at all included), and AUTO never.
C19_DecidedByCounts ==
    oc_pc = "classified" =>
        /\ oc_mode # "auto"
        /\ oc_mode = "document" => (d_count = 0 /\ doc_count >= 1)
        /\ (d_count = 0 /\ doc_count = 0) => oc_mode = "tax"
        /\ \A m \in Messages :
              (/\ Matches(DISPUTE_KEYWORDS, StrLower(m)) = d_count
               /\ Matches(DOCUMENT_KEYWORDS, StrLower(m)) = doc_count
               /\ Matches(TAX_KEYWORDS, StrLower(m)) = t_count)
                  => auto_classify(m) = oc_mode

(***************************************************************************)
(* Search coroutines on one VectorStore.  search, bm25_search and          *)
(* get_stats hold no await that suspends; hybrid_search awaits search and  *)
(* then bm25_search, and another coroutine can run between the two.        *)
(***************************************************************************)
MaxCalls == 2
CallIds == 1..MaxCalls

SearchOps == {"search", "bm25_search", "hybrid_search", "get_stats"}
SearchQueries == {<<>>, <<"VAT">>, <<"court", "rate">>}

IdleFrame == [op |-> "none", query |-> <<>>, top_k |-> 1, pc |-> "idle",
              vector_results |-> Found(<<>>), out |-> Found(<<>>), overlapped |-> FALSE]

\* the frame of a coroutine after its next uninterrupted stretch
NextFrame(self, f) ==
    CASE f.op = "search" ->
            [f EXCEPT !.pc = "done", !.out = search(self, f.query, f.top_k, {}, "ok")]
      [] f.op = "bm25_search" ->
            [f EXCEPT !.pc = "done", !.out = bm25_search(self, f.query, f.top_k)]
      [] f.op = "get_stats" ->
            [f EXCEPT !.pc = "done", !.out = get_stats(self)]
      [] f.op = "hybrid_search" /\ f.pc = "called" ->
            IF self.documents = <<>> THEN [f EXCEPT !.pc = "done", !.out = Found(<<>>)]
            ELSE LET v == search(self, f.query, f.top_k * 2, {}, "ok")
                 IN IF v.raised # "none" THEN [f EXCEPT !.pc = "done", !.out = Failed(v.raised)]
                    ELSE [f EXCEPT !.pc = "searched", !.vector_results = v]
      [] f.op = "hybrid_search" /\ f.pc = "searched" ->
            LET b == bm25_search(self, f.query, f.top_k * 2)
            IN [f EXCEPT !.pc = "done",
                         !.out = IF b.raised # "none" THEN Failed(b.raised)
                                 ELSE CombineScores(f.vector_results.results, b.results,
                                                    f.top_k, 500, 500, {})]

\* a stretch that writes the cut of the stored documents back to self.documents
RunStepCutting(self, d, f) ==
    [self |-> [self EXCEPT !.documents = Take(self.documents, f.top_k)], disk |-> d,
     frame |-> NextFrame(self, f)]

\* one stretch of a search coroutine: it reads self and assigns to its own frame only
RunStep(self, d, f) == [self |-> self, disk |-> d, frame |-> NextFrame(self, f)]

InProgress(f) == f.pc \in {"called", "searched"}

\* a store after construction on an empty directory and one add_documents
SearchInit ==
    /\ CiteParked /\ QueryParked /\ RouteParked /\ IngestParked /\ DispatchParked /\ RetryParked /\ ConvParked /\ UsageParked /\ WritersParked
    /\ \E f \in Feeds, n \in 0..MaxBatch :
          LET r == add_documents(_initialize_empty_index(NoStore), EmptyDisk,
                                 SubSeq(f, 1, n), "ok")
          IN /\ vs_pc = "ready"
             /\ faiss_index = r.self.faiss_index
             /\ documents = r.self.documents
             /\ bm25 = r.self.bm25
             /\ tokenized_corpus = r.self.tokenized_corpus
             /\ disk = r.disk
             /\ last_op = "add"
             /\ prev_op = "new"
             /\ raised = r.raised
             /\ returned = r.ret
             /\ prev_store = NotHeld
             /\ only_adds = (r.raised = "none")
             /\ feed = f
             /\ cursor = IF r.raised = "none" THEN n ELSE 0
             /\ removals = 0
    /\ s_calls = [c \in CallIds |-> IdleFrame]

\* a caller starts search, bm25_search, hybrid_search or get_stats
StartSearch ==
    \E c \in CallIds, op \in SearchOps, q \in SearchQueries, k \in TopKs :
        /\ s_calls[c].pc = "idle"
        /\ op = "get_stats" => (q = <<>> /\ k = 1)
        /\ s_calls' = [s_calls EXCEPT ![c] = [IdleFrame EXCEPT !.op = op, !.query = q,
                                                               !.top_k = k, !.pc = "called"]]
        /\ UNCHANGED <<storeVars, notSearchVars>>

\* the event loop runs a coroutine up to its next await or its return
StepSearch ==
    \E c \in CallIds :
        /\ InProgress(s_calls[c])
        /\ LET r == RunStep(Self, disk, s_calls[c])
               beside == \E o \in CallIds \ {c} : InProgress(s_calls[o])
           IN /\ faiss_index' = r.self.faiss_index
              /\ documents' = r.self.documents
              /\ bm25' = r.self.bm25
              /\ tokenized_corpus' = r.self.tokenized_corpus
              /\ disk' = r.disk
              /\ s_calls' = [s_calls EXCEPT
                                ![c] = [r.frame EXCEPT !.overlapped = @ \/ beside]]
        /\ UNCHANGED <<vs_pc, last_op, prev_op, raised, returned, prev_store, only_adds,
                       feed, cursor, removals, notSearchVars>>

SearchNext == StartSearch \/ StepSearch

InitSearch == SearchInit

SpecSearch == InitSearch /\ [][SearchNext]_vars

(***************************************************************************)
(* Search coroutines: properties                                           *)
(***************************************************************************)
\* what the call of a frame returns when nothing runs beside it
Alone(self, f) ==
    CASE f.op = "search" -> search(self, f.query, f.top_k, {}, "ok")
      [] f.op = "bm25_search" -> bm25_search(self, f.query, f.top_k)
      [] f.op = "hybrid_search" -> hybrid_search(self, f.query, f.top_k, 500, 500, {}, "ok")
      [] f.op = "get_stats" -> get_stats(self)

ReturnsAsAlone ==
    \A c \in CallIds : s_calls[c].pc = "done" => s_calls[c].out = Alone(Self, s_calls[c])

\* C20: search, bm25_search, hybrid_search and get_stats leave the document list, the
\* stored documents, the dense index, the sparse index and the artifacts on disk
\* unchanged, and searches that run interleaved return what each returns run alone.
C20_SearchesAreReadOnly ==
    /\ [][UNCHANGED <<faiss_index, documents, bm25, tokenized_corpus, disk>>]_vars
    /\ []ReturnsAsAlone

\* C20 witness: two calls that ran side by side on a store with documents have both
\* returned, a hybrid_search with results among them
C20_Witness ==
    /\ documents # <<>>
    /\ \A c \in CallIds : s_calls[c].pc = "done" /\ s_calls[c].overlapped
    /\ s_calls[1].op = "hybrid_search" /\ s_calls[1].out.raised = "none"
    /\ s_calls[1].out.results # <<>>
    /\ s_calls[2].op # "get_stats" /\ s_calls[2].query # s_calls[1].query

\* C22 (as claimed): a bare reference directly followed by a hyphenated suffix
\* ('M 168-it') is extracted as a Citation with that article; a text of several such
\* references yields at least as many Citations as it names distinct articles.
C22_SuffixedReferenceExtracted ==
    cite_pc = "extracted" =>
        \A i \in DOMAIN text :
            (/\ text[i] = "M" /\ At(text, i + 1) = " " /\ IsNum(At(text, i + 2))
             /\ At(text, i + 3) = "-" /\ At(text, i + 4) = "it")
                => \E c \in DOMAIN citations : citations[c].article = <<text[i + 2]>>

(***************************************************************************)
(* scripts/ingest_disputes.py: extract_case_metadata.                      *)
(*                                                                         *)
(* A text is a sequence of pieces: the labels "K:" (category) and "FD:"    *)
(* (final decision), words, " " and "\n".  Of the dictionary returned the  *)
(* keys category, final_decision and decision_type are modelled; the other *)
(* keys are filled from other labels by the same search-and-capture.       *)
(***************************************************************************)
\* the index of the first occurrence of a label, 0 if there is none
FirstIndex(label, t) ==
    IF \E i \in DOMAIN t : t[i] = label
    THEN CHOOSE i \in DOMAIN t : t[i] = label /\ \A j \in 1..(i - 1) : t[j] # label
    ELSE 0

\* \s* : the index after the run of " " and "\n" that starts at i
RECURSIVE SkipSpace(_, _)
SkipSpace(t, i) == IF At(t, i) \in {" ", "\n"} THEN SkipSpace(t, i + 1) ELSE i

\* [^\n]+ : the index after the run of pieces other than "\n" that starts at i
RECURSIVE LineEnd(_, _)
LineEnd(t, i) == IF At(t, i) \in {"\n", "EOT"} THEN i ELSE LineEnd(t, i + 1)

\* str.strip() of a sequence of pieces
RECURSIVE Strip(_)
Strip(s) ==
    IF s = <<>> THEN s
    ELSE IF Head(s) \in {" ", "\n"} THEN Strip(Tail(s))
    ELSE IF s[Len(s)] \in {" ", "\n"} THEN Strip(SubSeq(s, 1, Len(s) - 1))
    ELSE s

\* re.search(label + r"\s*([^\n]+)", text): group(1).strip(), or None without a match.
\* When only white space follows the label on its line, \s* runs on into the next
\* lines; when nothing but white space follows at all, the group is the last blank.
Capture(label, t) ==
    LET i == FirstIndex(label, t)
        j == SkipSpace(t, i + 1)
    IN IF i = 0 THEN [matched |-> FALSE, group |-> <<>>]
       ELSE IF j <= Len(t) THEN [matched |-> TRUE, group |-> Strip(SubSeq(t, j, LineEnd(t, j) - 1))]
       ELSE IF \E k \in (i + 1)..Len(t) : t[k] = " " THEN [matched |-> TRUE, group |-> <<>>]
       ELSE [matched |-> FALSE, group |-> <<>>]

SATISFIED == <<"dakmaqofilda">>              \* "დაკმაყოფილდა"
NOT_SATISFIED == <<"ar", " ", "dakmaqofilda">>   \* "არ დაკმაყოფილდა"
PARTIALLY == <<"natsilobriv">>               \* "ნაწილობრივ"

\* "Parse decision type": the if/elif chain of extract_case_metadata
DecisionType(decision_text) ==
    LET lowered == StrLower(decision_text)
    IN IF IsSubstring(SATISFIED, lowered) THEN "satisfied"
       ELSE IF IsSubstring(NOT_SATISFIED, lowered) THEN "rejected"
       ELSE IF IsSubstring(PARTIALLY, lowered) THEN "partially_satisfied"
       ELSE "other"

\* extract_case_metadata(text), the keys modelled
extract_case_metadata(t) ==
    LET category == Capture("K:", t)
        decision == Capture("FD:", t)
    IN [category |-> IF category.matched THEN category.group ELSE NoneVal,
        final_decision |-> IF decision.matched THEN decision.group ELSE NoneVal,
        decision_type |-> IF decision.matched THEN DecisionType(decision.group) ELSE NoneVal]

MaxDecisionWords == 3
DecisionWords == {"sachivari", "ar", "dakmaqofilda", "natsilobriv", "gauqmda"}

RECURSIVE JoinBySpace(_)
JoinBySpace(ws) ==
    IF ws = <<>> THEN <<>>
    ELSE IF Len(ws) = 1 THEN ws
    ELSE <<Head(ws), " ">> \o JoinBySpace(Tail(ws))

DecisionTexts == {JoinBySpace(ws) : ws \in UNION {[1..n -> DecisionWords] : n \in 0..MaxDecisionWords}}

\* documents with or without a category line and a final-decision line
CaseTexts ==
    LET Heads == {<<>>, <<"K:", " ", "dgg", "\n">>}
        Lines == {<<>>} \cup {<<"FD:", " ">> \o d \o <<"\n">> : d \in DecisionTexts}
    IN {h \o l : h \in Heads, l \in Lines}

IngestInit ==
    /\ ig_pc = "idle"
    /\ ig_text \in CaseTexts
    /\ ig_metadata = [category |-> NoneVal, final_decision |-> NoneVal, decision_type |-> NoneVal]

\* metadata = extract_case_metadata(text)
ExtractCaseMetadata ==
    /\ ig_pc = "idle"
    /\ ig_metadata' = extract_case_metadata(ig_text)
    /\ ig_pc' = "extracted"
    /\ UNCHANGED <<ig_text, notIngestVars>>

IngestNext == ExtractCaseMetadata

InitIngest == WritersParked /\ UsageParked /\ ConvParked /\ RetryParked /\ DispatchParked /\ CiteParked /\ StoreParked /\ QueryParked /\ RouteParked /\ SearchParked /\ IngestInit

SpecIngest == InitIngest /\ [][IngestNext]_vars

(***************************************************************************)
(* extract_case_metadata: properties                                       *)
(***************************************************************************)
\* C23 (as claimed): decision_type is 'rejected' when the decision text contains the
\* words for 'not satisfied', 'partially_satisfied' when it contains the word for
\* 'partially', 'satisfied' when it contains the word for 'satisfied' with neither
\* qualifier, and 'other' otherwise.
C23_DecisionTypeByWording ==
    (ig_pc = "extracted" /\ ig_metadata.final_decision # NoneVal) =>
        LET d == StrLower(ig_metadata.final_decision)
        IN /\ IsSubstring(NOT_SATISFIED, d) => ig_metadata.decision_type = "rejected"
           /\ (IsSubstring(PARTIALLY, d) /\ ~IsSubstring(NOT_SATISFIED, d))
                 => ig_metadata.decision_type = "partially_satisfied"
           /\ (IsSubstring(SATISFIED, d) /\ ~IsSubstring(NOT_SATISFIED, d)
               /\ ~IsSubstring(PARTIALLY, d)) => ig_metadata.decision_type = "satisfied"
           /\ (~IsSubstring(SATISFIED, d) /\ ~IsSubstring(PARTIALLY, d))
                 => ig_metadata.decision_type = "other"

\* C26 (as claimed): add_documents is all-or-nothing: a call that raises (in the
\* encoder, the dense append, the sparse rebuild or a write of save) leaves the
\* document list, the dense index, the sparse index and the artifacts on disk as
\* they were before the call.
C26_AddIsAllOrNothing ==
    [][(vs_pc = "ready" /\ last_op' = "add" /\ raised' # "none") =>
          UNCHANGED <<faiss_index, documents, bm25, tokenized_corpus, disk>>]_vars

(***************************************************************************)
(* Orchestrator.route_query.  A service query returns a response or raises *)
(* (the outcome argument); the response's answer and sources are not       *)
(* modelled, its mode_used is.                                             *)
(***************************************************************************)
QueryModes == {"tax", "dispute", "document", "auto"}
ServiceOutcomes == {"ok", "raise"}

\* the result of route_query: the services queried, mode_used of the response
\* ("none" without a response) and the exception raised ("none" if it returned)
Routed(calls, mode_used, exc) == [calls |-> calls, mode_used |-> mode_used, raised |-> exc]

\* Orchestrator._route_to_tax
_route_to_tax(services, outcome) ==
    IF ~services.tax THEN Routed(<<>>, "none", "ValueError")
    ELSE IF outcome = "raise" THEN Routed(<<"tax">>, "none", "ServiceError")
    ELSE Routed(<<"tax">>, "tax", "none")

\* Orchestrator._route_to_dispute
_route_to_dispute(services, outcome) ==
    IF ~services.dispute THEN Routed(<<>>, "none", "ValueError")
    ELSE IF outcome = "raise" THEN Routed(<<"dispute">>, "none", "ServiceError")
    ELSE Routed(<<"dispute">>, "dispute", "none")

\* Orchestrator.route_query
route_query(services, message, mode, outcome) ==
    LET resolved == IF mode = "auto" THEN auto_classify(message) ELSE mode
    IN IF resolved = "tax" THEN _route_to_tax(services, outcome)
       ELSE IF resolved = "dispute" THEN _route_to_dispute(services, outcome)
       ELSE IF resolved = "document" THEN Routed(<<>>, "none", "ValueError")
       ELSE Routed(<<>>, "none", "ValueError")

MaxRouteWords == 2

\* the messages routed: up to MaxRouteWords word groups of WordTable
RoutedMessages ==
    {JoinWords(ids) : ids \in UNION {[1..n -> DOMAIN WordTable] : n \in 0..MaxRouteWords}}

DispatchInit ==
    /\ rq_pc = "idle"
    /\ rq_services \in [tax : BOOLEAN, dispute : BOOLEAN]
    /\ rq_message \in RoutedMessages
    /\ rq_mode \in QueryModes
    /\ rq_calls = <<>>
    /\ rq_mode_used = "none"
    /\ rq_raised = "none"

\* response = await orchestrator.route_query(message, mode)
RouteQuery ==
    /\ rq_pc = "idle"
    /\ \E outcome \in ServiceOutcomes :
          LET r == route_query(rq_services, rq_message, rq_mode, outcome)
          IN /\ rq_calls' = r.calls
             /\ rq_mode_used' = r.mode_used
             /\ rq_raised' = r.raised
             /\ rq_pc' = IF r.raised = "none" THEN "returned" ELSE "raised"
    /\ UNCHANGED <<rq_services, rq_message, rq_mode, notDispatchVars>>

DispatchNext == RouteQuery

InitDispatch == WritersParked /\ UsageParked /\ ConvParked /\ RetryParked /\ CiteParked /\ StoreParked /\ QueryParked /\ RouteParked /\ SearchParked /\ IngestParked /\ DispatchInit

SpecDispatch == InitDispatch /\ [][DispatchNext]_vars

(***************************************************************************)
(* Orchestrator.route_query: properties                                    *)
(***************************************************************************)
\* C27 (as claimed): with the tax and the dispute service both available, a call
\* route_query(message, AUTO) queries exactly one of the two services, never raises
\* ValueError, and a response it returns has mode_used tax or dispute.
C27_AutoAlwaysDispatches ==
    (rq_pc # "idle" /\ rq_mode = "auto" /\ rq_services.tax /\ rq_services.dispute) =>
        /\ rq_calls \in {<<"tax">>, <<"dispute">>}
        /\ rq_raised # "ValueError"
        /\ rq_pc = "returned" => rq_mode_used \in {"tax", "dispute"}

(***************************************************************************)
(* GeminiClient / ClaudeClient: _retry_with_backoff.                       *)
(*                                                                         *)
(* An invocation of func returns a result or raises; an exception is       *)
(* [cls, text], cls its class and text its message as pieces.  Delays are  *)
(* in seconds.                                                             *)
(***************************************************************************)
MAX_RETRIES == 3
INITIAL_RETRY_DELAY == 1
MAX_RETRY_DELAY == 10

FuncRaises(cls, txt) == [ok |-> FALSE, cls |-> cls, text |-> txt, value |-> "none"]
FuncReturns(value) == [ok |-> TRUE, cls |-> "none", text |-> <<>>, value |-> value]

\* str(e).lower()
LowerWord(w) ==
    IF w = "Rate" THEN "rate" ELSE IF w = "Quota" THEN "quota" ELSE IF w = "Internal" THEN "internal" ELSE w
ErrorStr(e) == [i \in DOMAIN e.text |-> LowerWord(e.text[i])]

\* what func can do when the Gemini client calls it
GeminiOutcomes ==
    {FuncReturns("text"), FuncReturns("empty"),
     FuncRaises("ResourceExhausted", <<"429", " ", "Quota", " ", "exceeded">>),
     FuncRaises("ResourceExhausted", <<"Quota", " ", "exceeded">>),
     FuncRaises("Exception", <<"Rate", " ", "limit", " ", "reached">>),
     FuncRaises("InternalServerError", <<"500", " ", "Internal", " ", "error">>),
     FuncRaises("ValueError", <<"blocked", " ", "prompt">>)}

\* what func can do when the Claude client calls it; anthropic.RateLimitError is a
\* subclass of anthropic.APIError
ClaudeOutcomes ==
    {FuncReturns("text"), FuncReturns("empty"),
     FuncRaises("anthropic.RateLimitError", <<"429", " ", "rate_limit_error">>),
     FuncRaises("anthropic.APIError", <<"500", " ", "Internal", " ", "error">>),
     FuncRaises("anthropic.APIError", <<"overloaded">>),
     FuncRaises("TypeError", <<"bad", " ", "argument">>)}

FuncOutcomes(client) == IF client = "gemini" THEN GeminiOutcomes ELSE ClaudeOutcomes

\* the test that sends the handler to the retry branch: the three markers in the
\* lowered message (Gemini), the except clause for anthropic.RateLimitError (Claude)
IsRateLimit(client, e) ==
    IF client = "gemini"
    THEN \/ IsSubstring(<<"rate", " ", "limit">>, ErrorStr(e))
         \/ IsSubstring(<<"quota">>, ErrorStr(e))
         \/ IsSubstring(<<"429">>, ErrorStr(e))
    ELSE e.cls = "anthropic.RateLimitError"

\* what the loop body does after func did o in iteration attempt
Step(pc, attempt, delay, sleep, result, exc) ==
    [pc |-> pc, attempt |-> attempt, delay |-> delay, sleep |-> sleep, result |-> result,
     raised |-> exc]

\* the loop body that retries after every exception
LoopBodyRetryingAll(client, attempt, delay, o) ==
    IF o.ok THEN Step("returned", attempt, delay, 0, o.value, "none")
    ELSE IF attempt < MAX_RETRIES - 1 THEN Step("sleeping", attempt, delay, delay, "none", "none")
    ELSE Step("raised", attempt, delay, 0, "none", "RateLimitError")

\* the body of "for attempt in range(self.MAX_RETRIES)" up to its first await after func
LoopBody(client, attempt, delay, o) ==
    IF o.ok THEN Step("returned", attempt, delay, 0, o.value, "none")
    ELSE IF IsRateLimit(client, o)
    THEN IF attempt < MAX_RETRIES - 1
         THEN Step("sleeping", attempt, delay, delay, "none", "none")
         ELSE Step("raised", attempt, delay, 0, "none", "RateLimitError")
    ELSE Step("raised", attempt, delay, 0, "none", "LLMError")

Min2(a, b) == IF a <= b THEN a ELSE b

RetryInit ==
    /\ rt_pc = "idle"
    /\ rt_client \in {"gemini", "claude"}
    /\ rt_attempt = 0
    /\ rt_delay = 0
    /\ rt_outcomes = <<>>
    /\ rt_sleeps = <<>>
    /\ rt_result = "none"
    /\ rt_raised = "none"

\* await self._retry_with_backoff(func): last_error = None, delay = INITIAL_RETRY_DELAY,
\* the loop is entered (MAX_RETRIES > 0)
EnterRetry ==
    /\ rt_pc = "idle"
    /\ rt_delay' = INITIAL_RETRY_DELAY
    /\ rt_attempt' = 0
    /\ rt_pc' = "calling"
    /\ UNCHANGED <<rt_client, rt_outcomes, rt_sleeps, rt_result, rt_raised, notRetryVars>>

\* "return await func(...)" completes, with a result or an exception,
\* and the handler runs to its return, its raise or its asyncio.sleep
Invoke ==
    /\ rt_pc = "calling"
    /\ rt_attempt < MAX_RETRIES
    /\ \E o \in FuncOutcomes(rt_client) :
          LET s == LoopBody(rt_client, rt_attempt, rt_delay, o)
          IN /\ rt_outcomes' = Append(rt_outcomes, o)
             /\ rt_pc' = s.pc
             /\ rt_sleeps' = IF s.pc = "sleeping" THEN Append(rt_sleeps, s.sleep) ELSE rt_sleeps
             /\ rt_result' = s.result
             /\ rt_raised' = s.raised
    /\ UNCHANGED <<rt_client, rt_attempt, rt_delay, notRetryVars>>

\* asyncio.sleep(delay) completes: delay = min(delay * 2, MAX_RETRY_DELAY); continue
WakeUp ==
    /\ rt_pc = "sleeping"
    /\ rt_delay' = Min2(rt_delay * 2, MAX_RETRY_DELAY)
    /\ rt_attempt' = rt_attempt + 1
    /\ rt_pc' = "calling"
    /\ UNCHANGED <<rt_client, rt_outcomes, rt_sleeps, rt_result, rt_raised, notRetryVars>>

\* The raise after the loop (llm_client.py:219-223, 463-467) needs the loop to end
\* without a return or a raise: rt_pc = "calling" with rt_attempt = MAX_RETRIES.
LoopEnded == rt_pc = "calling" /\ rt_attempt >= MAX_RETRIES

RetryNext == EnterRetry \/ Invoke \/ WakeUp

InitRetry == WritersParked /\ UsageParked /\ ConvParked /\ CiteParked /\ StoreParked /\ QueryParked /\ RouteParked /\ SearchParked /\ IngestParked /\ DispatchParked /\ RetryInit

SpecRetry == InitRetry /\ [][RetryNext]_vars

\* func completes and asyncio.sleep ends: the event loop resumes the coroutine
SpecRetryFair == SpecRetry /\ WF_vars(RetryNext)

(***************************************************************************)
(* _retry_with_backoff: properties                                         *)
(***************************************************************************)
Last(s) == s[Len(s)]
RetryDone == rt_pc \in {"returned", "raised"}

\* 1, 2, 4, ... capped: the k-th sleep of a call
RECURSIVE Backoff(_)
Backoff(k) == IF k = 1 THEN INITIAL_RETRY_DELAY ELSE Min2(2 * Backoff(k - 1), MAX_RETRY_DELAY)

RetrySafety ==
    /\ Len(rt_outcomes) <= MAX_RETRIES
    /\ ~LoopEnded
    \* re-invoked only after a rate-limit error, each time after one sleep
    /\ \A k \in 1..(Len(rt_outcomes) - 1) :
          ~rt_outcomes[k].ok /\ IsRateLimit(rt_client, rt_outcomes[k])
    /\ Len(rt_sleeps) = IF RetryDone THEN Len(rt_outcomes) - 1 ELSE Len(rt_outcomes)
    /\ \A k \in DOMAIN rt_sleeps : rt_sleeps[k] = Backoff(k) /\ rt_sleeps[k] <= MAX_RETRY_DELAY
    /\ Len(rt_sleeps) >= 1 => rt_sleeps[1] = 1
    /\ Len(rt_sleeps) >= 2 => rt_sleeps[2] = 2
    \* the first success is returned at once, the first other error raised at once
    /\ (rt_outcomes # <<>> /\ Last(rt_outcomes).ok) =>
          (rt_pc = "returned" /\ rt_result = Last(rt_outcomes).value /\ rt_raised = "none")
    /\ (rt_outcomes # <<>> /\ ~Last(rt_outcomes).ok /\ ~IsRateLimit(rt_client, Last(rt_outcomes))) =>
          (rt_pc = "raised" /\ rt_raised = "LLMError")
    /\ (rt_outcomes # <<>> /\ ~Last(rt_outcomes).ok /\ IsRateLimit(rt_client, Last(rt_outcomes))) =>
          IF Len(rt_outcomes) = MAX_RETRIES
          THEN rt_pc = "raised" /\ rt_raised = "RateLimitError"
          ELSE rt_pc \in {"sleeping", "calling"} /\ rt_raised = "none"

\* C28: _retry_with_backoff ends after at most MAX_RETRIES invocations of func: it
\* returns the first result at once, invokes func again only after a rate-limit
\* error and a sleep of 1 s, then 2 s (doubling, at most MAX_RETRY_DELAY), raises
\* LLMError at the first other error and RateLimitError after MAX_RETRIES rate-limit
\* errors in a row.
C28_RetryTerminatesWithinBound == []RetrySafety /\ <>RetryDone

C28_Witness ==
    /\ rt_pc = "raised" /\ rt_raised = "RateLimitError"
    /\ Len(rt_outcomes) = MAX_RETRIES /\ rt_sleeps = <<1, 2>>

(***************************************************************************)
(* storage/conversation_store.py: ConversationStore.                       *)
(*                                                                         *)
(* self._conversations is a dict: a sequence of [key, obj] in insertion    *)
(* order.  A conversation dictionary is an object of cs_objects, so that a *)
(* caller holding a conversation holds the object, also after the key was  *)
(* deleted or assigned again.  A thread runs one call at a time, statement *)
(* by statement; no statement takes a lock.                                *)
(***************************************************************************)
\* ConversationStore.MAX_CONVERSATIONS is 100; the model's store holds 2
MAX_CONVERSATIONS == 2
TTL_HOURS == 24

ConvHas(d, k) == \E i \in DOMAIN d : d[i].key = k
ConvGet(d, k) == IF ConvHas(d, k) THEN d[CHOOSE i \in DOMAIN d : d[i].key = k].obj ELSE 0
ConvDel(d, k) == SelectSeq(d, LAMBDA e : e.key # k)
ConvSet(d, k, o) ==
    IF ConvHas(d, k) THEN [i \in DOMAIN d |-> IF d[i].key = k THEN [key |-> k, obj |-> o] ELSE d[i]]
    ELSE Append(d, [key |-> k, obj |-> o])
ConvKeys(d) == {d[i].key : i \in DOMAIN d}

\* the dictionary create_conversation stores
NewConversation(conversation_id, now) ==
    [conversation_id |-> conversation_id, messages |-> <<>>, created_at |-> now,
     updated_at |-> now, expires_at |-> now + TTL_HOURS]

\* the expiry test that never fires
NeverExpired(now, conv) == FALSE

\* now > conv["expires_at"]
IsExpired(now, conv) == now > conv.expires_at

\* [cid for cid, conv in self._conversations.items() if now > conv["expires_at"]]
RECURSIVE ExpiredKeys(_, _, _)
ExpiredKeys(d, objs, now) ==
    IF d = <<>> THEN <<>>
    ELSE (IF IsExpired(now, objs[Head(d).obj]) THEN <<Head(d).key>> ELSE <<>>)
         \o ExpiredKeys(Tail(d), objs, now)

\* min(self._conversations.keys(), key=lambda k: self._conversations[k]["created_at"]):
\* the first key, in insertion order, of the least created_at
Oldest(d, objs) ==
    LET i == CHOOSE i \in DOMAIN d :
                 /\ \A j \in DOMAIN d : objs[d[i].obj].created_at <= objs[d[j].obj].created_at
                 /\ \A j \in 1..(i - 1) : objs[d[j].obj].created_at > objs[d[i].obj].created_at
    IN d[i].key

\* sorted(self._conversations.values(), key=lambda c: c["updated_at"], reverse=True):
\* stable, so equal keys stay in insertion order
RECURSIVE InsertByUpdated(_, _, _)
InsertByUpdated(sorted, o, objs) ==
    IF sorted = <<>> THEN <<o>>
    ELSE IF objs[Head(sorted)].updated_at >= objs[o].updated_at
    THEN <<Head(sorted)>> \o InsertByUpdated(Tail(sorted), o, objs)
    ELSE <<o>> \o sorted

RECURSIVE SortedByUpdated(_, _)
SortedByUpdated(d, objs) ==
    IF d = <<>> THEN <<>>
    ELSE InsertByUpdated(SortedByUpdated(SubSeq(d, 1, Len(d) - 1), objs), d[Len(d)].obj, objs)

\* sum(len(conv["messages"]) for conv in self._conversations.values())
RECURSIVE TotalMessages(_, _)
TotalMessages(d, objs) ==
    IF d = <<>> THEN 0 ELSE Len(objs[Head(d).obj].messages) + TotalMessages(Tail(d), objs)

\* what a call returned; the fields that the operation does not return keep these values
NoRet == [kind |-> "none", flag |-> FALSE, id |-> "none", obj |-> 0, messages |-> <<>>,
          ids |-> <<>>, total_conversations |-> 0, total_messages |-> 0]

\* a thread between calls
IdleThread ==
    [pc |-> "idle", op |-> "none", cid |-> "none", content |-> <<>>, conv |-> 0,
     todo |-> <<>>, target |-> "none", after |-> "none", deleted |-> FALSE, size0 |-> 0,
     now |-> 0, ret |-> NoRet, raised |-> "none", calls |-> 0,
     start |-> 0, dict0 |-> <<>>, objs0 |-> <<>>, acked |-> {}]

CallerIds == {"a", "b"}
UuidOf(n) == IF n = 1 THEN "u1" ELSE IF n = 2 THEN "u2" ELSE IF n = 3 THEN "u3"
             ELSE IF n = 4 THEN "u4" ELSE IF n = 5 THEN "u5" ELSE "u6"

AllOps == {"create_conversation", "add_message", "get_conversation", "get_messages",
           "delete_conversation", "list_conversations", "get_stats"}
ThreadOps == {"create_conversation", "add_message", "get_conversation", "delete_conversation"}

\* the first statement of an operation
FirstPc(op) ==
    IF op \in {"create_conversation", "list_conversations", "get_stats"} THEN "cleanup_iter"
    ELSE IF op = "delete_conversation" THEN "dl_check"
    ELSE "gc_get"

\* where _cleanup_expired and delete_conversation return to
AfterHelper(op) ==
    IF op = "create_conversation" THEN "cr_check"
    ELSE IF op = "list_conversations" THEN "ls_ret"
    ELSE IF op = "get_stats" THEN "st_ret"
    ELSE IF op = "delete_conversation" THEN "dl_ret"
    ELSE "gc_none"

Me(self) == cs_threads[self]
ThreadBecomes(self, t) == cs_threads' = [cs_threads EXCEPT ![self] = t]
RaiseIn(self, exc) == ThreadBecomes(self, [Me(self) EXCEPT !.pc = "raised", !.raised = exc])
ReturnFrom(self, ret) == ThreadBecomes(self, [Me(self) EXCEPT !.pc = "done", !.ret = ret])

(***************************************************************************)
(* ConversationStore: the statements of a call.                            *)
(***************************************************************************)
\* a caller starts op(cid); the history fields start, dict0 and objs0 record the
\* clock and the store at the call
Begin(self, op, cid) ==
    /\ Me(self).pc \in {"idle", "done", "raised"}
    /\ ThreadBecomes(self, [IdleThread EXCEPT
           !.pc = FirstPc(op), !.op = op, !.cid = cid,
           !.content = <<self, Me(self).calls + 1>>,
           !.target = cid, !.after = AfterHelper(op),
           !.calls = Me(self).calls + 1, !.acked = Me(self).acked,
           !.start = cs_clock, !.dict0 = cs_conversations, !.objs0 = cs_objects])
    /\ UNCHANGED <<cs_conversations, cs_objects, cs_clock, cs_uuid, notConvVars>>

\* _cleanup_expired: now = datetime.utcnow(); the iteration over items() begins
CleanupIter(self) ==
    /\ Me(self).pc = "cleanup_iter"
    /\ ThreadBecomes(self, [Me(self) EXCEPT !.pc = "cleanup_collect", !.now = cs_clock,
                                           !.size0 = Len(cs_conversations)])
    /\ UNCHANGED <<cs_conversations, cs_objects, cs_clock, cs_uuid, notConvVars>>

\* the iteration ends: RuntimeError (dictionary changed size during iteration) if the
\* dict has another size than when it began
CleanupCollect(self) ==
    /\ Me(self).pc = "cleanup_collect"
    /\ IF Len(cs_conversations) # Me(self).size0
       THEN RaiseIn(self, "RuntimeError")
       ELSE ThreadBecomes(self, [Me(self) EXCEPT
                !.pc = "cleanup_del",
                !.todo = ExpiredKeys(cs_conversations, cs_objects, Me(self).now)])
    /\ UNCHANGED <<cs_conversations, cs_objects, cs_clock, cs_uuid, notConvVars>>

\* for cid in expired: del self._conversations[cid]; after the loop the caller goes on
CleanupDel(self) ==
    /\ Me(self).pc = "cleanup_del"
    /\ IF Me(self).todo = <<>>
       THEN /\ ThreadBecomes(self, [Me(self) EXCEPT !.pc = Me(self).after])
            /\ UNCHANGED cs_conversations
       ELSE IF ~ConvHas(cs_conversations, Head(Me(self).todo))
       THEN RaiseIn(self, "KeyError") /\ UNCHANGED cs_conversations
       ELSE /\ cs_conversations' = ConvDel(cs_conversations, Head(Me(self).todo))
            /\ ThreadBecomes(self, [Me(self) EXCEPT !.todo = Tail(Me(self).todo)])
    /\ UNCHANGED <<cs_objects, cs_clock, cs_uuid, notConvVars>>

\* create_conversation: if len(self._conversations) >= self.MAX_CONVERSATIONS:
\* oldest_id = min(...) (ValueError on an empty dict), then delete_conversation(oldest_id)
CapCheck(self) ==
    /\ Me(self).pc = "cr_check"
    /\ IF Len(cs_conversations) >= MAX_CONVERSATIONS
       THEN ThreadBecomes(self, [Me(self) EXCEPT !.pc = "cr_min"])
       ELSE ThreadBecomes(self, [Me(self) EXCEPT !.pc = "cr_insert"])
    /\ UNCHANGED <<cs_conversations, cs_objects, cs_clock, cs_uuid, notConvVars>>

PickOldest(self) ==
    /\ Me(self).pc = "cr_min"
    /\ IF cs_conversations = <<>>
       THEN RaiseIn(self, "ValueError")
       ELSE ThreadBecomes(self, [Me(self) EXCEPT
                !.pc = "dl_check", !.target = Oldest(cs_conversations, cs_objects),
                !.after = "cr_insert"])
    /\ UNCHANGED <<cs_conversations, cs_objects, cs_clock, cs_uuid, notConvVars>>

\* delete_conversation: if conversation_id in self._conversations
DeleteCheck(self) ==
    /\ Me(self).pc = "dl_check"
    /\ IF ConvHas(cs_conversations, Me(self).target)
       THEN ThreadBecomes(self, [Me(self) EXCEPT !.pc = "dl_del"])
       ELSE ThreadBecomes(self, [Me(self) EXCEPT !.pc = Me(self).after, !.deleted = FALSE])
    /\ UNCHANGED <<cs_conversations, cs_objects, cs_clock, cs_uuid, notConvVars>>

\* delete_conversation: del self._conversations[conversation_id]; return True
DeleteDel(self) ==
    /\ Me(self).pc = "dl_del"
    /\ IF ~ConvHas(cs_conversations, Me(self).target)
       THEN RaiseIn(self, "KeyError") /\ UNCHANGED cs_conversations
       ELSE /\ cs_conversations' = ConvDel(cs_conversations, Me(self).target)
            /\ ThreadBecomes(self, [Me(self) EXCEPT !.pc = Me(self).after, !.deleted = TRUE])
    /\ UNCHANGED <<cs_objects, cs_clock, cs_uuid, notConvVars>>

\* the caller of delete_conversation gets its result
DeleteReturn(self) ==
    /\ Me(self).pc = "dl_ret"
    /\ ReturnFrom(self, [NoRet EXCEPT !.kind = "bool", !.flag = Me(self).deleted])
    /\ UNCHANGED <<cs_conversations, cs_objects, cs_clock, cs_uuid, notConvVars>>

\* create_conversation: the id (uuid4 if none was given), now = datetime.utcnow(),
\* self._conversations[conversation_id] = {...}; return conversation_id
Insert(self) ==
    /\ Me(self).pc = "cr_insert"
    /\ LET fresh == Me(self).cid = "none"
           id == IF fresh THEN UuidOf(cs_uuid + 1) ELSE Me(self).cid
       IN /\ cs_uuid' = IF fresh THEN cs_uuid + 1 ELSE cs_uuid
          /\ cs_objects' = Append(cs_objects, NewConversation(id, cs_clock))
          /\ cs_conversations' = ConvSet(cs_conversations, id, Len(cs_objects) + 1)
          /\ ReturnFrom(self, [NoRet EXCEPT !.kind = "id", !.id = id])
    /\ UNCHANGED <<cs_clock, notConvVars>>

\* what get_conversation's caller does with None
ReturnNone(self) ==
    IF Me(self).op = "add_message" THEN ReturnFrom(self, [NoRet EXCEPT !.kind = "bool", !.flag = FALSE])
    ELSE IF Me(self).op = "get_messages" THEN ReturnFrom(self, [NoRet EXCEPT !.kind = "messages"])
    ELSE ReturnFrom(self, NoRet)

\* get_conversation: conversation = self._conversations.get(conversation_id);
\* if not conversation: return None
GetConversation(self) ==
    /\ Me(self).pc = "gc_get"
    /\ LET conv == ConvGet(cs_conversations, Me(self).cid)
       IN IF conv = 0 THEN ReturnNone(self)
          ELSE ThreadBecomes(self, [Me(self) EXCEPT !.pc = "gc_check", !.conv = conv])
    /\ UNCHANGED <<cs_conversations, cs_objects, cs_clock, cs_uuid, notConvVars>>

\* get_conversation: if datetime.utcnow() > conversation["expires_at"]:
\* delete_conversation, return None; else return conversation, and the caller goes on
ExpiryCheck(self) ==
    /\ Me(self).pc = "gc_check"
    /\ LET me == Me(self)
       IN IF IsExpired(cs_clock, cs_objects[me.conv])
          THEN ThreadBecomes(self, [me EXCEPT !.pc = "dl_check", !.target = me.cid,
                                              !.after = "gc_none"])
          ELSE IF me.op = "add_message" THEN ThreadBecomes(self, [me EXCEPT !.pc = "am_append"])
          ELSE IF me.op = "get_messages"
          THEN ReturnFrom(self, [NoRet EXCEPT !.kind = "messages",
                                              !.messages = cs_objects[me.conv].messages])
          ELSE ReturnFrom(self, [NoRet EXCEPT !.kind = "conversation", !.obj = me.conv])
    /\ UNCHANGED <<cs_conversations, cs_objects, cs_clock, cs_uuid, notConvVars>>

\* get_conversation returns None after deleting the expired conversation
ExpiredNone(self) ==
    /\ Me(self).pc = "gc_none"
    /\ ReturnNone(self)
    /\ UNCHANGED <<cs_conversations, cs_objects, cs_clock, cs_uuid, notConvVars>>

\* add_message: conversation["messages"].append(message)
AppendMessage(self) ==
    /\ Me(self).pc = "am_append"
    /\ cs_objects' = [cs_objects EXCEPT ![Me(self).conv].messages = Append(@, Me(self).content)]
    /\ ThreadBecomes(self, [Me(self) EXCEPT !.pc = "am_update"])
    /\ UNCHANGED <<cs_conversations, cs_clock, cs_uuid, notConvVars>>

\* add_message: conversation["updated_at"] = datetime.utcnow(); return True
Touch(self) ==
    /\ Me(self).pc = "am_update"
    /\ cs_objects' = [cs_objects EXCEPT ![Me(self).conv].updated_at = cs_clock]
    /\ ThreadBecomes(self, [Me(self) EXCEPT
           !.pc = "done", !.ret = [NoRet EXCEPT !.kind = "bool", !.flag = TRUE],
           !.acked = @ \cup {[cid |-> Me(self).cid, obj |-> Me(self).conv,
                              content |-> Me(self).content]}])
    /\ UNCHANGED <<cs_conversations, cs_clock, cs_uuid, notConvVars>>

\* list_conversations after the cleanup, with the default limit and offset
ListReturn(self) ==
    /\ Me(self).pc = "ls_ret"
    /\ LET sorted == SortedByUpdated(cs_conversations, cs_objects)
       IN ReturnFrom(self, [NoRet EXCEPT
              !.kind = "summaries",
              !.ids = [i \in DOMAIN sorted |-> cs_objects[sorted[i]].conversation_id]])
    /\ UNCHANGED <<cs_conversations, cs_objects, cs_clock, cs_uuid, notConvVars>>

\* get_stats after the cleanup
StatsReturn(self) ==
    /\ Me(self).pc = "st_ret"
    /\ ReturnFrom(self, [NoRet EXCEPT
           !.kind = "stats",
           !.total_conversations = Len(cs_conversations),
           !.total_messages = TotalMessages(cs_conversations, cs_objects)])
    /\ UNCHANGED <<cs_conversations, cs_objects, cs_clock, cs_uuid, notConvVars>>

ClockStep == 12
MaxClock == 48
MaxStoreCalls == 3
MaxThreadCalls == 1

\* time passes
Tick ==
    /\ cs_clock < MaxClock
    /\ cs_clock' = cs_clock + ClockStep
    /\ UNCHANGED <<cs_conversations, cs_objects, cs_uuid, cs_threads, notConvVars>>

\* one caller: every operation, with the clock running
Call(self) ==
    /\ Me(self).calls < MaxStoreCalls
    /\ \E op \in AllOps, cid \in CallerIds \cup {"none"} :
          /\ cid = "none" => op = "create_conversation"
          /\ Begin(self, op, cid)

ConvInit ==
    /\ cs_conversations = <<>>
    /\ cs_objects = <<>>
    /\ cs_clock = 0
    /\ cs_uuid = 0
    /\ cs_threads = [t \in {1} |-> IdleThread]

\* one statement of the call that some thread is in
Statement ==
    \/ \E self \in DOMAIN cs_threads : CleanupIter(self)
    \/ \E self \in DOMAIN cs_threads : CleanupCollect(self)
    \/ \E self \in DOMAIN cs_threads : CleanupDel(self)
    \/ \E self \in DOMAIN cs_threads : CapCheck(self)
    \/ \E self \in DOMAIN cs_threads : PickOldest(self)
    \/ \E self \in DOMAIN cs_threads : Insert(self)
    \/ \E self \in DOMAIN cs_threads : DeleteCheck(self)
    \/ \E self \in DOMAIN cs_threads : DeleteDel(self)
    \/ \E self \in DOMAIN cs_threads : DeleteReturn(self)
    \/ \E self \in DOMAIN cs_threads : GetConversation(self)
    \/ \E self \in DOMAIN cs_threads : ExpiryCheck(self)
    \/ \E self \in DOMAIN cs_threads : ExpiredNone(self)
    \/ \E self \in DOMAIN cs_threads : AppendMessage(self)
    \/ \E self \in DOMAIN cs_threads : Touch(self)

ConvNext ==
    \/ Tick
    \/ \E self \in DOMAIN cs_threads : Call(self)
    \/ Statement
    \/ \E self \in DOMAIN cs_threads : ListReturn(self)
    \/ \E self \in DOMAIN cs_threads : StatsReturn(self)

InitConv == WritersParked /\ UsageParked /\ CiteParked /\ StoreParked /\ QueryParked /\ RouteParked /\ SearchParked /\ IngestParked /\ DispatchParked /\ RetryParked /\ ConvInit

SpecConv == InitConv /\ [][ConvNext]_vars

\* several callers at once: the operations the store promises to be thread-safe
ThreadCall(self) ==
    /\ Me(self).calls < MaxThreadCalls
    /\ \E op \in ThreadOps, cid \in CallerIds \cup {"none"} :
          /\ cid = "none" => op = "create_conversation"
          /\ Begin(self, op, cid)

\* the store after create_conversation("a") at time 0, and two threads
ThreadsInit ==
    /\ cs_conversations = <<[key |-> "a", obj |-> 1]>>
    /\ cs_objects = <<NewConversation("a", 0)>>
    /\ cs_clock = 0
    /\ cs_uuid = 0
    /\ cs_threads = [t \in {1, 2} |-> IdleThread]

ThreadsNext ==
    \/ Tick
    \/ \E self \in DOMAIN cs_threads : ThreadCall(self)
    \/ Statement

InitThreads == WritersParked /\ UsageParked /\ CiteParked /\ StoreParked /\ QueryParked /\ RouteParked /\ SearchParked /\ IngestParked /\ DispatchParked /\ RetryParked /\ ThreadsInit

SpecThreads == InitThreads /\ [][ThreadsNext]_vars

(***************************************************************************)
(* ConversationStore: properties                                           *)
(***************************************************************************)
\* C24 (as claimed): under every interleaving of create_conversation, add_message,
\* get_conversation and delete_conversation calls of several threads no call raises,
\* a message whose add_message returned True is in the messages of the conversation
\* it was added to for as long as that conversation is stored, and the store never
\* holds more than MAX_CONVERSATIONS conversations.
C24_ThreadSafeWithCap ==
    /\ \A t \in DOMAIN cs_threads : cs_threads[t].raised = "none"
    /\ \A t \in DOMAIN cs_threads : \A e \in cs_threads[t].acked :
          ConvGet(cs_conversations, e.cid) = e.obj =>
              \E k \in DOMAIN cs_objects[e.obj].messages :
                  cs_objects[e.obj].messages[k] = e.content
    /\ Len(cs_conversations) <= MAX_CONVERSATIONS

\* the keys whose conversation had expired when thread t's call began
StaleAtCall(t) ==
    {t.dict0[i].key : i \in {j \in DOMAIN t.dict0 :
                               t.start > t.objs0[t.dict0[j].obj].created_at + 24}}

\* what a call that has returned may show of the conversations stale at the call
HidesStale(t) ==
    /\ (t.op = "get_conversation" /\ t.cid \in StaleAtCall(t)) => t.ret.kind = "none"
    /\ (t.op = "get_messages" /\ t.cid \in StaleAtCall(t)) => t.ret.messages = <<>>
    /\ (t.op = "add_message" /\ t.cid \in StaleAtCall(t)) =>
          (t.ret.flag = FALSE /\ cs_objects = t.objs0)
    /\ t.op = "list_conversations" =>
          \A i \in DOMAIN t.ret.ids : t.ret.ids[i] \notin StaleAtCall(t)
    /\ t.op = "get_stats" =>
          /\ t.ret.total_conversations = Cardinality(ConvKeys(cs_conversations))
          /\ ConvKeys(cs_conversations) \cap StaleAtCall(t) = {}
          /\ t.ret.total_messages = TotalMessages(cs_conversations, cs_objects)

\* C25: a conversation is not exposed after its expiry time, creation + 24 hours,
\* which add_message does not extend: a call that begins after it gets None from
\* get_conversation, an empty list from get_messages, False from add_message with
\* nothing stored, and list_conversations and get_stats leave the conversation out.
C25_NotExposedAfterExpiry ==
    /\ \A o \in DOMAIN cs_objects : cs_objects[o].expires_at = cs_objects[o].created_at + 24
    /\ \A t \in DOMAIN cs_threads :
          /\ cs_threads[t].pc # "raised"
          /\ cs_threads[t].pc = "done" => HidesStale(cs_threads[t])

C25_Witness ==
    \E t \in DOMAIN cs_threads :
        /\ cs_threads[t].pc = "done"
        /\ cs_threads[t].op = "add_message"
        /\ cs_threads[t].cid \in StaleAtCall(cs_threads[t])
        /\ \E o \in DOMAIN cs_objects : cs_objects[o].messages # <<>>

(***************************************************************************)
(* AuthService.check_and_increment_usage and the chat endpoint.            *)
(*                                                                         *)
(* One user.  Every call runs in a database transaction of its own: the    *)
(* SELECT ... FOR UPDATE waits for the row lock, reads the committed row   *)
(* into the session and holds the lock until the commit.  Time is in days. *)
(* settings.daily_request_limit and settings.monthly_request_limit are the *)
(* configured limits; the model takes 2 and 3.                             *)
(***************************************************************************)
daily_request_limit == 2
monthly_request_limit == 3
MonthDays == 30

NoUser == [exists |-> FALSE, daily_requests_count |-> 0, monthly_requests_count |-> 0,
           total_requests_count |-> 0, daily_requests_reset_at |-> 0,
           monthly_requests_reset_at |-> 0]
NewUser == [NoUser EXCEPT !.exists = TRUE]

\* the row lock does not make a second SELECT ... FOR UPDATE wait
RowLockIgnored(lock) == TRUE

\* SELECT ... FOR UPDATE returns when no other transaction holds the row lock
RowLockFree(lock) == lock = 0

\* the outcome of the statements between the SELECT and the commit:
\* (is_allowed, reason), the user object of the session, whether a UsageRecord
\* was added and whether the transaction is committed
Checked(is_allowed, reason, user, record, commits) ==
    [is_allowed |-> is_allowed, reason |-> reason, user |-> user, record |-> record,
     commits |-> commits]

\* check_and_increment_usage from "if not user" to the commit
CheckAndIncrement(row, now) ==
    IF ~row.exists THEN Checked(FALSE, "User not found", row, FALSE, FALSE)
    ELSE LET u1 == IF now - row.daily_requests_reset_at >= 1
                   THEN [row EXCEPT !.daily_requests_count = 0, !.daily_requests_reset_at = now]
                   ELSE row
             u2 == IF now - u1.monthly_requests_reset_at >= MonthDays
                   THEN [u1 EXCEPT !.monthly_requests_count = 0, !.monthly_requests_reset_at = now]
                   ELSE u1
         IN IF u2.daily_requests_count >= daily_request_limit
            THEN Checked(FALSE, "Daily request limit reached", u2, FALSE, TRUE)
            ELSE IF u2.monthly_requests_count >= monthly_request_limit
            THEN Checked(FALSE, "Monthly request limit reached", u2, FALSE, TRUE)
            ELSE Checked(TRUE, "",
                         [u2 EXCEPT !.daily_requests_count = @ + 1,
                                    !.monthly_requests_count = @ + 1,
                                    !.total_requests_count = @ + 1],
                         TRUE, TRUE)

\* the chat endpoint lets every request pass the quota check
QuotaGateOpen(is_allowed) == 0

\* chat: if not is_allowed: raise HTTPException(status_code=429); 0: the request goes on
QuotaGate(is_allowed) == IF ~is_allowed THEN 429 ELSE 0

ValidModes == {"tax", "dispute", "document", "auto"}
RequestModes == {"tax", "bogus"}
ConversationArgs == {"none", "known", "unknown"}
RouteOutcomes == {"ok", "LLMError", "ValueError"}

\* a call or request that has not begun
IdleCall ==
    [pc |-> "idle", kind |-> "direct", calls |-> 0, now |-> 0, checked |-> Checked(FALSE, "", NoUser, FALSE, FALSE),
     mode |-> "auto", conversation_arg |-> "none", conversation_id |-> "none",
     status |-> 0, log |-> <<>>]

Caller(id) == us_calls[id]
CallBecomes(id, c) == us_calls' = [us_calls EXCEPT ![id] = c]

StoreHas(store, id) == \E i \in DOMAIN store : store[i].id = id
\* conversation_store.add_message on an unexpired conversation
StoreAdd(store, id, role) ==
    [i \in DOMAIN store |-> IF store[i].id = id
                            THEN [store[i] EXCEPT !.messages = Append(@, role)]
                            ELSE store[i]]
NewConversationId(id) == IF id = 1 THEN "n1" ELSE IF id = 2 THEN "n2" ELSE "n3"

MaxUsageCalls == 2
MaxTicks == 3

\* now = datetime.utcnow() (auth_service.py:285), before the SELECT is awaited
BeginCheck(id) ==
    /\ Caller(id).pc = "select_begin"
    /\ CallBecomes(id, [Caller(id) EXCEPT !.pc = "select", !.now = us_clock])
    /\ UNCHANGED <<us_row, us_records, us_lock, us_clock, us_ticks, us_granted, us_last,
                   us_orchestrator, us_store, notUsageVars>>

\* the SELECT ... FOR UPDATE returns, and the call runs to its commit; without a
\* user it returns (False, "User not found", None)
SelectForUpdate(id) ==
    /\ Caller(id).pc = "select"
    /\ RowLockFree(us_lock)
    /\ LET c == CheckAndIncrement(us_row, Caller(id).now)
       IN /\ us_lock' = IF us_row.exists THEN id ELSE us_lock
          /\ CallBecomes(id, [Caller(id) EXCEPT
                 !.checked = c,
                 !.pc = IF c.commits THEN "commit" ELSE "checked",
                 !.log = IF c.commits THEN @ ELSE Append(@, "denied")])
    /\ UNCHANGED <<us_row, us_records, us_clock, us_ticks, us_granted, us_last,
                   us_orchestrator, us_store, notUsageVars>>

\* await self.session.commit(): the session's user and the UsageRecord are written,
\* the lock is released, the call returns
Commit(id) ==
    /\ Caller(id).pc = "commit"
    /\ LET c == Caller(id).checked
       IN /\ us_row' = c.user
          /\ us_records' = IF c.record THEN us_records + 1 ELSE us_records
          /\ us_granted' =
                 [daily |-> (IF c.user.daily_requests_reset_at # us_row.daily_requests_reset_at
                             THEN 0 ELSE us_granted.daily) + (IF c.is_allowed THEN 1 ELSE 0),
                  monthly |-> (IF c.user.monthly_requests_reset_at # us_row.monthly_requests_reset_at
                               THEN 0 ELSE us_granted.monthly) + (IF c.is_allowed THEN 1 ELSE 0)]
          /\ us_last' = [committed |-> TRUE, allowed |-> c.is_allowed, held |-> us_lock = id,
                         before |-> us_row, after |-> c.user,
                         records_before |-> us_records,
                         records_after |-> IF c.record THEN us_records + 1 ELSE us_records]
          /\ CallBecomes(id, [Caller(id) EXCEPT
                 !.pc = "checked",
                 !.log = Append(@, IF c.is_allowed THEN "increment" ELSE "denied")])
    /\ us_lock' = IF us_lock = id THEN 0 ELSE us_lock
    /\ UNCHANGED <<us_clock, us_ticks, us_orchestrator, us_store, notUsageVars>>

\* a direct caller gets (is_allowed, reason, user)
ReturnChecked(id) ==
    /\ Caller(id).pc = "checked"
    /\ Caller(id).kind = "direct"
    /\ CallBecomes(id, [Caller(id) EXCEPT !.pc = "done"])
    /\ UNCHANGED <<us_row, us_records, us_lock, us_clock, us_ticks, us_granted, us_last,
                   us_orchestrator, us_store, notUsageVars>>

\* a day, or a month less a day, passes
Passes ==
    /\ us_ticks < MaxTicks
    /\ \E days \in {1, MonthDays - 1} : us_clock' = us_clock + days
    /\ us_ticks' = us_ticks + 1
    /\ UNCHANGED <<us_row, us_records, us_lock, us_calls, us_granted, us_last,
                   us_orchestrator, us_store, notUsageVars>>

\* a caller awaits auth_service.check_and_increment_usage(user_id, ...)
CallCheck(id) ==
    /\ Caller(id).pc \in {"idle", "done"}
    /\ Caller(id).calls < MaxUsageCalls
    /\ CallBecomes(id, [IdleCall EXCEPT !.pc = "select_begin", !.calls = Caller(id).calls + 1])
    /\ UNCHANGED <<us_row, us_records, us_lock, us_clock, us_ticks, us_granted, us_last,
                   us_orchestrator, us_store, notUsageVars>>

UsageInit ==
    /\ us_row \in {NoUser, NewUser}
    /\ us_records = 0
    /\ us_lock = 0
    /\ us_clock = 0
    /\ us_ticks = 0
    /\ us_calls = [id \in {1, 2} |-> IdleCall]
    /\ us_granted = [daily |-> 0, monthly |-> 0]
    /\ us_last = [committed |-> FALSE, allowed |-> FALSE, held |-> FALSE, before |-> NoUser,
                  after |-> NoUser, records_before |-> 0, records_after |-> 0]
    /\ us_orchestrator = FALSE
    /\ us_store = <<>>

UsageNext ==
    \/ Passes
    \/ \E id \in DOMAIN us_calls : CallCheck(id)
    \/ \E id \in DOMAIN us_calls : BeginCheck(id)
    \/ \E id \in DOMAIN us_calls : SelectForUpdate(id)
    \/ \E id \in DOMAIN us_calls : Commit(id)
    \/ \E id \in DOMAIN us_calls : ReturnChecked(id)

InitUsage == WritersParked /\ CiteParked /\ StoreParked /\ QueryParked /\ RouteParked /\ SearchParked /\ IngestParked /\ DispatchParked /\ RetryParked /\ ConvParked /\ UsageInit

SpecUsage == InitUsage /\ [][UsageNext]_vars

(***************************************************************************)
(* check_and_increment_usage: properties                                   *)
(***************************************************************************)
\* C29: under every interleaving of concurrent check_and_increment_usage calls for
\* one user, the calls allowed since a reset of the daily (monthly) counter are never
\* more than the daily (monthly) limit, the two counters never exceed their limits,
\* and a denied call raises no counter and writes no UsageRecord.
C29_QuotaNeverExceeded ==
    /\ us_granted.daily <= daily_request_limit
    /\ us_granted.monthly <= monthly_request_limit
    /\ us_row.daily_requests_count <= daily_request_limit
    /\ us_row.monthly_requests_count <= monthly_request_limit
    /\ (us_last.committed /\ ~us_last.allowed) =>
          /\ us_last.after.daily_requests_count <= us_last.before.daily_requests_count
          /\ us_last.after.monthly_requests_count <= us_last.before.monthly_requests_count
          /\ us_last.after.total_requests_count = us_last.before.total_requests_count
          /\ us_last.records_after = us_last.records_before
    /\ \A id \in DOMAIN us_calls :
          (us_calls[id].pc = "done" /\ ~us_calls[id].checked.is_allowed) =>
              ~us_calls[id].checked.record

C29_Witness ==
    /\ us_granted.daily = daily_request_limit
    /\ us_last.committed /\ ~us_last.allowed
    /\ \E id \in DOMAIN us_calls : us_calls[id].pc = "commit"

(***************************************************************************)
(* The chat endpoint: POST /chat                                           *)
(*                                                                         *)
(* A request is one coroutine; it gives up control at its two awaits, the  *)
(* quota check and route_query.  log is the request's history: the quota   *)
(* outcome ("increment" or "denied"), "route_query" when the orchestrator  *)
(* is called, "route_ok" when it returned, "add_user" and "add_assistant"  *)
(* for the messages appended.                                              *)
(***************************************************************************)
Count(log, e) == Cardinality({i \in DOMAIN log : log[i] = e})
Position(log, e) == IF \E i \in DOMAIN log : log[i] = e
                    THEN CHOOSE i \in DOMAIN log : log[i] = e /\ \A j \in 1..(i - 1) : log[j] # e
                    ELSE 0

\* a user who has used up today's requests
ExhaustedUser == [NewUser EXCEPT !.daily_requests_count = daily_request_limit,
                                 !.monthly_requests_count = daily_request_limit,
                                 !.total_requests_count = daily_request_limit]

MaxChatRequests == 2

\* a request arrives; an invalid mode is answered 400 before the quota is touched
ChatRequest(id) ==
    /\ Caller(id).pc \in {"idle", "done"}
    /\ Caller(id).calls < MaxChatRequests
    /\ \E mode \in RequestModes, arg \in ConversationArgs :
          CallBecomes(id, [IdleCall EXCEPT
              !.kind = "chat", !.calls = Caller(id).calls + 1, !.mode = mode,
              !.conversation_arg = arg,
              !.pc = IF mode \in ValidModes THEN "select_begin" ELSE "done",
              !.status = IF mode \in ValidModes THEN 0 ELSE 400])
    /\ UNCHANGED <<us_row, us_records, us_lock, us_clock, us_ticks, us_granted, us_last,
                   us_orchestrator, us_store, notUsageVars>>

\* from the return of check_and_increment_usage to the await of route_query
ChatGate(id) ==
    /\ Caller(id).pc = "checked"
    /\ Caller(id).kind = "chat"
    /\ LET c == Caller(id)
           arg == c.conversation_arg
       IN IF QuotaGate(c.checked.is_allowed) # 0
          THEN /\ CallBecomes(id, [c EXCEPT !.pc = "done", !.status = QuotaGate(c.checked.is_allowed)])
               /\ UNCHANGED us_store
          ELSE IF ~us_orchestrator
          THEN /\ CallBecomes(id, [c EXCEPT !.pc = "done", !.status = 503])
               /\ UNCHANGED us_store
          ELSE IF arg # "none" /\ ~StoreHas(us_store, arg)
          THEN /\ CallBecomes(id, [c EXCEPT !.pc = "done", !.status = 404])
               /\ UNCHANGED us_store
          ELSE IF arg # "none"
          THEN /\ CallBecomes(id, [c EXCEPT !.pc = "routing", !.conversation_id = arg,
                                            !.log = Append(@, "route_query")])
               /\ UNCHANGED us_store
          ELSE LET new == NewConversationId(Len(us_store))
               IN /\ us_store' = Append(us_store, [id |-> new, messages |-> <<>>])
                  /\ CallBecomes(id, [c EXCEPT !.pc = "routing", !.conversation_id = new,
                                               !.log = Append(@, "route_query")])
    /\ UNCHANGED <<us_row, us_records, us_lock, us_clock, us_ticks, us_granted, us_last,
                   us_orchestrator, notUsageVars>>

\* route_query returns or raises; the rest of the handler runs without an await
RouteReturns(id) ==
    /\ Caller(id).pc = "routing"
    /\ \E outcome \in RouteOutcomes :
          LET c == Caller(id)
              found == StoreHas(us_store, c.conversation_id)
          IN IF outcome = "ok"
             THEN /\ us_store' = IF found
                                 THEN StoreAdd(StoreAdd(us_store, c.conversation_id, "user"),
                                               c.conversation_id, "assistant")
                                 ELSE us_store
                  /\ CallBecomes(id, [c EXCEPT
                         !.pc = "done", !.status = 200,
                         !.log = IF found THEN @ \o <<"route_ok", "add_user", "add_assistant">>
                                 ELSE Append(@, "route_ok")])
             ELSE /\ CallBecomes(id, [c EXCEPT
                         !.pc = "done", !.status = IF outcome = "LLMError" THEN 503 ELSE 500,
                         !.log = Append(@, "route_failed")])
                  /\ UNCHANGED us_store
    /\ UNCHANGED <<us_row, us_records, us_lock, us_clock, us_ticks, us_granted, us_last,
                   us_orchestrator, notUsageVars>>

\* the store drops a conversation (it expired, or another request's
\* create_conversation evicted it)
Forget ==
    /\ \E i \in DOMAIN us_store :
          us_store' = [j \in 1..(Len(us_store) - 1) |->
                          IF j < i THEN us_store[j] ELSE us_store[j + 1]]
    /\ UNCHANGED <<us_row, us_records, us_lock, us_clock, us_ticks, us_calls, us_granted,
                   us_last, us_orchestrator, notUsageVars>>

ChatInit ==
    /\ us_row \in {NoUser, NewUser, ExhaustedUser}
    /\ us_records = us_row.total_requests_count
    /\ us_lock = 0
    /\ us_clock = 0
    /\ us_ticks = 0
    /\ us_calls = [id \in {1, 2} |-> [IdleCall EXCEPT !.kind = "chat"]]
    /\ us_granted = [daily |-> us_row.daily_requests_count,
                     monthly |-> us_row.monthly_requests_count]
    /\ us_last = [committed |-> FALSE, allowed |-> FALSE, held |-> FALSE, before |-> NoUser,
                  after |-> NoUser, records_before |-> 0, records_after |-> 0]
    /\ us_orchestrator \in BOOLEAN
    /\ us_store = <<[id |-> "known", messages |-> <<>>]>>

ChatNext ==
    \/ Forget
    \/ \E id \in DOMAIN us_calls : ChatRequest(id)
    \/ \E id \in DOMAIN us_calls : BeginCheck(id)
    \/ \E id \in DOMAIN us_calls : SelectForUpdate(id)
    \/ \E id \in DOMAIN us_calls : Commit(id)
    \/ \E id \in DOMAIN us_calls : ChatGate(id)
    \/ \E id \in DOMAIN us_calls : RouteReturns(id)

InitChat == WritersParked /\ CiteParked /\ StoreParked /\ QueryParked /\ RouteParked /\ SearchParked /\ IngestParked /\ DispatchParked /\ RetryParked /\ ConvParked /\ ChatInit

SpecChat == InitChat /\ [][ChatNext]_vars

(***************************************************************************)
(* chat: properties                                                        *)
(***************************************************************************)
QuotaPrecedesRouting ==
    \A id \in DOMAIN us_calls :
        LET c == us_calls[id]
            log == c.log
        IN /\ (c.status = 429 \/ Count(log, "denied") > 0) => Count(log, "route_query") = 0
           /\ Count(log, "route_query") > 0 =>
                 /\ Count(log, "route_query") = 1
                 /\ Count(log, "increment") = 1
                 /\ Position(log, "increment") < Position(log, "route_query")
           /\ Count(log, "add_user") > 0 =>
                 /\ Position(log, "route_ok") > Position(log, "route_query")
                 /\ Position(log, "add_user") = Position(log, "route_ok") + 1
                 /\ Position(log, "add_assistant") = Position(log, "add_user") + 1
           /\ Count(log, "add_assistant") = Count(log, "add_user")
           /\ Count(log, "add_user") <= Count(log, "route_ok")

MessagesInPairs ==
    \A i \in DOMAIN us_store :
        \A k \in DOMAIN us_store[i].messages :
            us_store[i].messages[k] = IF k % 2 = 1 THEN "user" ELSE "assistant"

IncrementKept ==
    /\ us_row'.total_requests_count >= us_row.total_requests_count
    /\ us_records' >= us_records
    /\ \A id \in DOMAIN us_calls :
          (Count(us_calls[id].log, "increment") = 1 /\ us_calls'[id].status \in {404, 500, 503}
              /\ us_calls[id].status = 0) =>
                 /\ us_row'.total_requests_count = us_row.total_requests_count
                 /\ us_records' = us_records
                 /\ us_row'.daily_requests_count = us_row.daily_requests_count
                 /\ us_row'.monthly_requests_count = us_row.monthly_requests_count

WriterIds == {1, 2}
MaxWriterCalls == 1

WriterBatches == {<<DocVat>>, <<DocCourt>>, <<DocTwin, DocVat>>, <<DocBlank>>}

IdleWriter == [pc |-> "idle", documents |-> <<>>, calls |-> 0, raised |-> "none"]

\* self.documents.extend(documents), the batch turned round
ExtendReversed(list, batch) == list \o [i \in DOMAIN batch |-> batch[Len(batch) + 1 - i]]

\* self.documents.extend(documents)
Extend(list, batch) == list \o batch

\* np.array([doc.embedding for doc in documents]) appended by self.faiss_index.add
FaissAdd(rows, batch) == rows \o [i \in DOMAIN batch |-> batch[i].embedding]

Writer(t) == wr_threads[t]
WriterBecomes(t, w) == wr_threads' = [wr_threads EXCEPT ![t] = w]
InCall(t) == Writer(t).pc \notin {"idle", "done", "raised"}

\* a thread calls add_documents(documents) with a non-empty batch and assigns the
\* embeddings its documents lack
WriterCall(t) ==
    /\ ~InCall(t)
    /\ Writer(t).calls < MaxWriterCalls
    /\ \E batch \in WriterBatches :
          WriterBecomes(t, [pc |-> "faiss", documents |-> Embedded(batch),
                            calls |-> Writer(t).calls + 1, raised |-> "none"])
    /\ wr_overlapped' = (wr_overlapped \/ \E u \in WriterIds \ {t} : InCall(u))
    /\ UNCHANGED <<wr_rows, wr_documents, wr_tokenized, wr_bm25, wr_disk, notWritersVars>>

\* self.faiss_index.add(embeddings_array)
WriterFaissAdd(t) ==
    /\ Writer(t).pc = "faiss"
    /\ wr_rows' = FaissAdd(wr_rows, Writer(t).documents)
    /\ WriterBecomes(t, [Writer(t) EXCEPT !.pc = "extend"])
    /\ UNCHANGED <<wr_documents, wr_tokenized, wr_bm25, wr_disk, wr_overlapped, notWritersVars>>

\* self.documents.extend(documents)
WriterExtend(t) ==
    /\ Writer(t).pc = "extend"
    /\ wr_documents' = Extend(wr_documents, Writer(t).documents)
    /\ WriterBecomes(t, [Writer(t) EXCEPT !.pc = "tokenize"])
    /\ UNCHANGED <<wr_rows, wr_tokenized, wr_bm25, wr_disk, wr_overlapped, notWritersVars>>

\* self.tokenized_corpus = [self._tokenize_text(doc.content) for doc in self.documents]
WriterTokenize(t) ==
    /\ Writer(t).pc = "tokenize"
    /\ wr_tokenized' = TokenizeAll(wr_documents)
    /\ WriterBecomes(t, [Writer(t) EXCEPT !.pc = "bm25"])
    /\ UNCHANGED <<wr_rows, wr_documents, wr_bm25, wr_disk, wr_overlapped, notWritersVars>>

\* self.bm25 = BM25Okapi(self.tokenized_corpus), which raises on a corpus without a token
WriterBm25(t) ==
    /\ Writer(t).pc = "bm25"
    /\ IF Bm25Raises(wr_tokenized)
       THEN /\ WriterBecomes(t, [Writer(t) EXCEPT !.pc = "raised", !.raised = "ZeroDivisionError"])
            /\ UNCHANGED wr_bm25
       ELSE /\ wr_bm25' = BM25Okapi(wr_tokenized).corpus
            /\ WriterBecomes(t, [Writer(t) EXCEPT !.pc = "save"])
    /\ UNCHANGED <<wr_rows, wr_documents, wr_tokenized, wr_disk, wr_overlapped, notWritersVars>>

\* self.save(); return len(documents)
WriterSave(t) ==
    /\ Writer(t).pc = "save"
    /\ wr_disk' = <<wr_rows, wr_documents>>
    /\ WriterBecomes(t, [Writer(t) EXCEPT !.pc = "done"])
    /\ UNCHANGED <<wr_rows, wr_documents, wr_tokenized, wr_bm25, wr_overlapped, notWritersVars>>

\* a store just constructed on an empty directory
WritersInit ==
    /\ wr_rows = <<>>
    /\ wr_documents = <<>>
    /\ wr_tokenized = <<>>
    /\ wr_bm25 = <<>>
    /\ wr_disk = <<>>
    /\ wr_threads = [t \in WriterIds |-> IdleWriter]
    /\ wr_overlapped = FALSE

WritersNext ==
    \/ \E t \in WriterIds : WriterCall(t)
    \/ \E t \in WriterIds : WriterFaissAdd(t)
    \/ \E t \in WriterIds : WriterExtend(t)
    \/ \E t \in WriterIds : WriterTokenize(t)
    \/ \E t \in WriterIds : WriterBm25(t)
    \/ \E t \in WriterIds : WriterSave(t)

InitWriters == CiteParked /\ StoreParked /\ QueryParked /\ RouteParked /\ SearchParked /\ IngestParked /\ DispatchParked /\ RetryParked /\ ConvParked /\ UsageParked /\ WritersInit

SpecWriters == InitWriters /\ [][WritersNext]_vars

\* dense row i holds the embedding of documents[i], for every i
DenseRowsAligned ==
    /\ Len(wr_rows) = Len(wr_documents)
    /\ \A i \in DOMAIN wr_documents : wr_rows[i] = wr_documents[i].embedding

\* no call stands between its append to the dense index and its append to the list
NoneBetweenAppends == \A t \in WriterIds : Writer(t).pc # "extend"

\* C21: as long as no add_documents call has begun while another was in progress
\* (a single writer), dense row i holds the embedding of documents[i] for every i
\* whenever no call stands between its two appends; with two threads interleaved
\* statement by statement a state is reached, all calls over, in which some row i
\* does not hold the embedding of documents[i].
C21_AlignedUnlessInterleaved ==
    (~wr_overlapped /\ NoneBetweenAppends) => DenseRowsAligned

C21_Witness ==
    /\ wr_overlapped
    /\ \A t \in WriterIds : ~InCall(t)
    /\ Len(wr_rows) = Len(wr_documents)
    /\ \E i \in DOMAIN wr_documents : wr_rows[i] # wr_documents[i].embedding

=============================================================================
